---------------------------- MODULE Spec2Model ----------------------------
(***************************************************************************)
(* Signal-scoring and consensus-decision pipeline of the stock analysis    *)
(* system: TechnicalAnalysisAgent, FundamentalAnalysisAgent,               *)
(* SentimentAnalysisAgent, DebateAgent, DecisionAgent as composed by       *)
(* TradingAgentsGraph.propagate, and the stand-alone ScoringSystem.        *)
(*                                                                         *)
(* Numbers.  Python floats are modelled as exact rationals <<n, d>> with   *)
(* d > 0 in lowest terms, so every comparison against a threshold is the   *)
(* comparison of the real values.  Prices and volumes are integers.        *)
(*                                                                         *)
(* Labels.  The Chinese labels of the source are written in English:       *)
(*   trend     上升 "up"      下降 "down"    横盘 "flat"   未知 "unknown"    *)
(*   position  低位 "low"     中位 "mid"     高位 "high"   未知 "unknown"    *)
(*   patterns  底部横盘 "bottom_flat"  均线多头 "ma_bull"  均线空头 "ma_bear" *)
(*             阳线吞没 "bull_engulf"  阴线吞没 "bear_engulf"               *)
(*             MA金叉 "ma_golden"      MA死叉 "ma_dead"                     *)
(*   volume    放量上涨 "vol_up_rise"  放量下跌 "vol_up_fall"               *)
(*             缩量上涨 "vol_dn_rise"  缩量下跌 "vol_dn_fall"               *)
(*             量价正常 "vol_normal"                                        *)
(*   valuation 低估 "under"   合理 "fair"    高估 "over"                    *)
(*   health    优秀 "excellent"  良好 "good"  一般 "average"                *)
(*   news      正面 "positive"   负面 "negative"  中性 "neutral"            *)
(*   event     利好 "good_news"  利空 "bad_news"  无影响 "no_impact"        *)
(*   heat      高 "high"  中 "mid"  低 "low"                               *)
(*   consensus 看多 "bullish"  看空 "bearish"  中性 "neutral"               *)
(*   action    买入 "buy"  卖出 "sell"  观望 "hold"                         *)
(*   chart patterns of the ScoringSystem table                             *)
(*             头肩顶 "head_shoulders_top"  头肩底 "head_shoulders_bottom"  *)
(*             双顶 "double_top"  双底 "double_bottom"                      *)
(*             上升三角形 "ascending_triangle"                              *)
(*             下降三角形 "descending_triangle"                             *)
(*             对称三角形 "symmetric_triangle"                              *)
(*             上升旗形 "bull_flag"  下降旗形 "bear_flag"                   *)
(*             上升楔形 "rising_wedge"  下降楔形 "falling_wedge"            *)
(***************************************************************************)
EXTENDS Integers, Sequences, FiniteSets

VARIABLES
    pc,                 \* position of the propagate call
    symbol,             \* board prefix of the analysed symbol
    provider,           \* what the providers returned to the running analyze call
    technical_result,   \* TechnicalAnalysisResult
    fundamental_result, \* FundamentalAnalysisResult
    sentiment_result,   \* SentimentAnalysisResult
    debate_result,      \* DebateResult
    decision,           \* TradingDecision
    exc,                \* exception raised by the running call, "none" if none
    unit_pc,            \* position of a direct call of a pure method
    unit_in,            \* its arguments
    unit_out,           \* its return value
    weights,            \* ScoringSystem.weights
    score_result,       \* last TechnicalScoreResult returned by the ScoringSystem
    now,                \* the clock, in seconds
    requests,           \* rate_limiter.requests: the times of the granted requests
    cache,              \* cache.cache of the quote layer: key -> entry
    batch_pc,           \* position of the batch_analyze call
    batch,              \* the symbols batch_analyze has not analysed yet
    decisions,          \* the list batch_analyze builds
    last_calls,         \* the last two direct calls of the agents with their results
    ledger,             \* the TradingSystem: capital, positions, logs
    last_trade,         \* the last buy or sell call and what it returned
    cache_instance,     \* data_cache._cache_instance
    cache_files,        \* the files of the cache directory: key -> modification time
    hours,              \* the clock of the data cache, in hours
    last_fetch          \* the last provider call that consulted the data cache

vars == <<pc, symbol, provider, technical_result, fundamental_result,
          sentiment_result, debate_result, decision, exc,
          unit_pc, unit_in, unit_out, weights, score_result,
          now, requests, cache, batch_pc, batch, decisions, last_calls,
          ledger, last_trade, cache_instance, cache_files, hours, last_fetch>>

pipeline_vars == <<pc, symbol, provider, technical_result, fundamental_result,
                   sentiment_result, debate_result, decision, exc>>

unit_vars == <<unit_pc, unit_in, unit_out>>

scoring_vars == <<weights, score_result>>

fetch_vars == <<now, requests, cache>>

shared_vars == <<now, requests, cache, batch_pc, batch, decisions, last_calls>>

ledger_vars == <<ledger, last_trade>>

data_cache_vars == <<cache_instance, cache_files, hours, last_fetch>>

---------------------------------------------------------------------------
(* Bounds of the model *)

\* longest history the history provider returns
MaxCandles == 22

\* the longest trading_log of the TradingSystem
MaxTrades == 4

\* the score grid of the direct calls: scores k / GridSteps, k in 0..GridSteps
GridSteps == 40

---------------------------------------------------------------------------
(* Exact arithmetic standing for Python's float arithmetic *)

Abs(x) == IF x < 0 THEN -x ELSE x

RECURSIVE GCD(_, _)
GCD(a, b) == IF b = 0 THEN a ELSE GCD(b, a % b)

\* the rational n / d (d # 0) in lowest terms with a positive denominator
Rat(n, d) ==
    LET g == GCD(Abs(n), Abs(d))
        s == IF d < 0 THEN -1 ELSE 1
    IN  <<(s * n) \div g, (s * d) \div g>>

RInt(n) == <<n, 1>>

RAdd(a, b) == Rat(a[1] * b[2] + b[1] * a[2], a[2] * b[2])
RSub(a, b) == Rat(a[1] * b[2] - b[1] * a[2], a[2] * b[2])
RMul(a, b) == Rat(a[1] * b[1], a[2] * b[2])
\* a / b, for b # 0
RDiv(a, b) == Rat(a[1] * b[2], a[2] * b[1])
RLt(a, b) == a[1] * b[2] < b[1] * a[2]
RLe(a, b) == a[1] * b[2] <= b[1] * a[2]
RGt(a, b) == RLt(b, a)
RGe(a, b) == RLe(b, a)
RMin(a, b) == IF RLt(b, a) THEN b ELSE a
RMax(a, b) == IF RGt(b, a) THEN b ELSE a
RAbs(a) == <<Abs(a[1]), a[2]>>
RIsZero(a) == a[1] = 0

\* max(0.0, min(1.0, score))
Clamp01(score) == RMax(RInt(0), RMin(RInt(1), score))

Unit01(x) == RLe(RInt(0), x) /\ RLe(x, RInt(1))

\* Optional[float]: None is the empty sequence, a value v is <<v>>
None == <<>>
Some(v) == <<v>>

RECURSIVE SumSeq(_)
SumSeq(s) == IF s = <<>> THEN 0 ELSE Head(s) + SumSeq(Tail(s))

RECURSIVE MaxSeq(_)
MaxSeq(s) ==
    IF Len(s) = 1 THEN Head(s)
    ELSE LET m == MaxSeq(Tail(s)) IN IF Head(s) > m THEN Head(s) ELSE m

RECURSIVE MinSeq(_)
MinSeq(s) ==
    IF Len(s) = 1 THEN Head(s)
    ELSE LET m == MinSeq(Tail(s)) IN IF Head(s) < m THEN Head(s) ELSE m

\* the list with the elements of s
Listed(s) == SubSeq(s, 1, Len(s))

\* Python's s[-j:] : the last j elements, or all of s when it is shorter
LastN(s, j) == IF Len(s) <= j THEN s ELSE SubSeq(s, Len(s) - j + 1, Len(s))

\* Python's s[-j:-1] : the last j elements without the last one
LastNButOne(s, j) == LET t == LastN(s, j) IN SubSeq(t, 1, Len(t) - 1)

\* Python's s[-j] , defined for 1 <= j <= len(s) (IndexError otherwise)
FromEnd(s, j) == s[Len(s) - j + 1]

Field(s, f) == [i \in 1..Len(s) |-> s[i][f]]

\* the list holding item when c holds, the empty list otherwise
If(c, item) == IF c THEN <<item>> ELSE <<>>

---------------------------------------------------------------------------
(* Provider data: what fetch_stock_data and fetch_historical_data return *)

\* the shapes of the histories the history provider returns
Shapes == {"rise", "fall", "flat", "engulf_up", "engulf_down"}

\* the candle k bars before the last one (k = 0 is the last candle)
Candle(shape, k) ==
    LET odd == (k % 2 = 1)
        o == CASE shape = "rise" -> 1197 - 5 * k
               [] shape = "fall" -> 1003 + 5 * k
               [] shape = "flat" -> 1000
               [] shape = "engulf_up" ->
                     IF k = 0 THEN 995 ELSE IF odd THEN 1010 ELSE 1000
               [] shape = "engulf_down" ->
                     IF k = 0 THEN 1015 ELSE IF odd THEN 1000 ELSE 1010
        c == CASE shape = "rise" -> 1200 - 5 * k
               [] shape = "fall" -> 1000 + 5 * k
               [] shape = "flat" -> 1000
               [] shape = "engulf_up" ->
                     IF k = 0 THEN 1015 ELSE IF odd THEN 1000 ELSE 1010
               [] shape = "engulf_down" ->
                     IF k = 0 THEN 995 ELSE IF odd THEN 1010 ELSE 1000
        pad == IF shape = "flat" THEN 0 ELSE 2
    IN  [open |-> o, close |-> c,
         high |-> (IF o > c THEN o ELSE c) + pad,
         low |-> (IF o < c THEN o ELSE c) - pad,
         volume |-> 1000]

\* a history of n candles, oldest first
History(shape, n) == [i \in 1..n |-> Candle(shape, n - i)]

\* the histories the provider may return (None is modelled apart)
Histories == {History(sh, n) : sh \in Shapes, n \in 0..MaxCandles}

\* the quotes the quote provider may return; change_percent in percent
Quotes == [price : {1000, 1020, 1160, 1200},
           volume : {500, 1000, 2000},
           change_percent : {-3, 0, 3}]

\* the providers' outcome seen by the running TechnicalAnalysisAgent.analyze
\* (quote: "none" when fetch_stock_data returned nothing; history: "none" when
\* fetch_historical_data returned None, "list" with n candles otherwise)
NoFetch == [quote |-> "unused", price |-> 0, history |-> "unused", n |-> 0]

---------------------------------------------------------------------------
(* TechnicalAnalysisAgent *)

TechnicalAnalysisResult ==
    [trend |-> "unknown", position |-> "unknown", patterns |-> <<>>,
     indicators |-> <<>>, volume_price |-> "", score |-> RInt(0),
     signals |-> <<>>]

\* _analyze_trend indexes candles[-6] and candles[-21] without checking
\* that they exist
AnalyzeTrendRaises(candles) == Len(candles) >= 5 /\ Len(candles) < 21

\* _analyze_trend, for histories on which it does not raise
AnalyzeTrend(candles) ==
    IF Len(candles) < 5 THEN "unknown"
    ELSE LET last == FromEnd(candles, 1).close
             c6 == FromEnd(candles, 6).close
             c21 == FromEnd(candles, 21).close
             short_trend == Rat(last - c6, c6)
             mid_trend == Rat(last - c21, c21)
         IN  IF RGt(short_trend, Rat(2, 100)) /\ RGt(mid_trend, Rat(2, 100))
               THEN "up"
             ELSE IF RLt(short_trend, Rat(-2, 100)) /\ RLt(mid_trend, Rat(-2, 100))
               THEN "down"
             ELSE "flat"

AnalyzePosition(candles, current_price) ==
    IF Len(candles) < 10 THEN "unknown"
    ELSE LET highest == MaxSeq(Field(LastN(candles, 10), "high"))
             lowest == MinSeq(Field(LastN(candles, 10), "low"))
             range_size == highest - lowest
         IN  IF range_size <= 0 THEN "unknown"
             ELSE LET position == Rat(current_price - lowest, range_size)
                  IN  IF RLt(position, Rat(3, 10)) THEN "low"
                      ELSE IF RGt(position, Rat(7, 10)) THEN "high"
                      ELSE "mid"

RecognizePatterns(candles) ==
    IF Len(candles) < 3 THEN <<>>
    ELSE
    LET recent_lows == Field(LastN(candles, 10), "low")
        ma5 == Rat(SumSeq(Field(LastN(candles, 5), "close")), 5)
        ma10 == Rat(SumSeq(Field(LastN(candles, 10), "close")), 10)
        ma20 == Rat(SumSeq(Field(LastN(candles, 20), "close")), 20)
        last == FromEnd(candles, 1)
        prev == FromEnd(candles, 2)
        ma5_prev == Rat(SumSeq(Field(LastNButOne(candles, 6), "close")), 5)
        ma10_prev == Rat(SumSeq(Field(LastNButOne(candles, 11), "close")), 10)
    IN  If(RLt(RInt(MaxSeq(recent_lows) - MinSeq(recent_lows)),
               RMul(Rat(5, 100), RInt(MinSeq(recent_lows)))), "bottom_flat")
        \o If(RGt(ma5, ma10) /\ RGt(ma10, ma20), "ma_bull")
        \o If(RLt(ma5, ma10) /\ RLt(ma10, ma20), "ma_bear")
        \o If(last.close > prev.open /\ last.open < prev.close
              /\ last.close > prev.close /\ last.open < prev.open, "bull_engulf")
        \o If(last.close < prev.open /\ last.open > prev.close
              /\ last.close < prev.close /\ last.open > prev.open, "bear_engulf")
        \o If(RLe(ma5_prev, ma10_prev) /\ RGt(ma5, ma10), "ma_golden")
        \o If(RGe(ma5_prev, ma10_prev) /\ RLt(ma5, ma10), "ma_dead")

\* round(x, 2)
Round2(x) == Rat((2 * 100 * x[1] + x[2]) \div (2 * x[2]), 100)

\* the RSI entry of _calculate_indicators: the 13 last changes, averaged
\* over 14
CalculateIndicators(candles) ==
    IF Len(candles) >= 14
    THEN LET n == Len(candles)
             change(j) == candles[j].close - candles[j - 1].close
             gains == [i \in 1..13 |->
                         IF change(n - 13 + i) > 0 THEN change(n - 13 + i) ELSE 0]
             losses == [i \in 1..13 |->
                         IF change(n - 13 + i) > 0 THEN 0 ELSE Abs(change(n - 13 + i))]
             avg_gain == Rat(SumSeq(gains), 14)
             avg_loss == Rat(SumSeq(losses), 14)
             rsi == IF RIsZero(avg_loss) THEN RInt(100)
                    ELSE LET rs == RDiv(avg_gain, avg_loss)
                         IN  RSub(RInt(100), RDiv(RInt(100), RAdd(RInt(1), rs)))
         IN  [key \in {"RSI"} |-> Round2(rsi)]
    ELSE <<>>

\* indicators.get(key, default)
Get(indicators, key, default) ==
    IF key \in DOMAIN indicators THEN indicators[key] ELSE default

AnalyzeVolumePrice(candles, stock) ==
    IF Len(candles) < 10 THEN "unknown"
    ELSE LET avg_volume == Rat(SumSeq(Field(LastNButOne(candles, 10), "volume")), 9)
             volume_ratio == IF RGt(avg_volume, RInt(0))
                             THEN RDiv(RInt(stock.volume), avg_volume)
                             ELSE RInt(1)
             change_pct == RInt(stock.change_percent)
         IN  IF RGt(change_pct, RInt(2)) /\ RGt(volume_ratio, Rat(15, 10))
               THEN "vol_up_rise"
             ELSE IF RLt(change_pct, RInt(-2)) /\ RGt(volume_ratio, Rat(15, 10))
               THEN "vol_up_fall"
             ELSE IF RGt(change_pct, RInt(2)) /\ RLt(volume_ratio, Rat(8, 10))
               THEN "vol_dn_rise"
             ELSE IF RLt(change_pct, RInt(-2)) /\ RLt(volume_ratio, Rat(8, 10))
               THEN "vol_dn_fall"
             ELSE "vol_normal"

positive_patterns == {"bottom_flat", "ma_bull", "bull_engulf", "ma_golden"}
negative_patterns == {"ma_bear", "bear_engulf", "ma_dead"}

RECURSIVE PatternPoints(_)
PatternPoints(patterns) ==
    IF patterns = <<>> THEN RInt(0)
    ELSE RAdd(IF Head(patterns) \in positive_patterns THEN Rat(10, 100)
              ELSE IF Head(patterns) \in negative_patterns THEN Rat(-10, 100)
              ELSE RInt(0),
              PatternPoints(Tail(patterns)))

\* the sum _calculate_score accumulates before it limits it
TechnicalRawScore(result) ==
    LET rsi == Get(result.indicators, "RSI", RInt(50))
    IN  RAdd(RAdd(RAdd(RAdd(
          IF result.trend = "up" THEN Rat(25, 100)
          ELSE IF result.trend = "down" THEN Rat(-25, 100) ELSE RInt(0),
          IF result.position = "low" THEN Rat(20, 100)
          ELSE IF result.position = "high" THEN Rat(-20, 100) ELSE RInt(0)),
          PatternPoints(result.patterns)),
          IF result.volume_price = "vol_up_rise" THEN Rat(15, 100)
          ELSE IF result.volume_price = "vol_up_fall" THEN Rat(-15, 100)
          ELSE RInt(0)),
          IF RLt(rsi, RInt(30)) THEN Rat(15, 100)
          ELSE IF RGt(rsi, RInt(70)) THEN Rat(-15, 100) ELSE RInt(0))

\* _calculate_score without the final limit to [0, 1]
CalculateScore_Unclamped(result) == TechnicalRawScore(result)

\* TechnicalAnalysisAgent._calculate_score
CalculateScore(result) == Clamp01(TechnicalRawScore(result))

\* TechnicalAnalysisAgent._generate_signals
GenerateSignals(result) ==
    IF RGe(result.score, Rat(7, 10)) THEN <<"strong_buy">>
    ELSE IF RGe(result.score, Rat(5, 10)) THEN <<"buy">>
    ELSE IF RLe(result.score, Rat(3, 10)) THEN <<"sell">>
    ELSE IF RLe(result.score, Rat(1, 10)) THEN <<"strong_sell">>
    ELSE <<"hold">>

\* the body of analyze after both providers answered with enough data
AnalyzeSteps(candles, stock) ==
    LET r1 == [TechnicalAnalysisResult EXCEPT
                 !.trend = AnalyzeTrend(candles),
                 !.position = AnalyzePosition(candles, stock.price),
                 !.patterns = RecognizePatterns(candles),
                 !.indicators = CalculateIndicators(candles),
                 !.volume_price = AnalyzeVolumePrice(candles, stock)]
        r2 == [r1 EXCEPT !.score = CalculateScore(r1)]
    IN  [r2 EXCEPT !.signals = GenerateSignals(r2)]

---------------------------------------------------------------------------
(* FundamentalAnalysisAgent *)

\* the board prefixes analyze distinguishes (symbol.startswith)
Symbols == {"60", "00", "30", "other"}

FundamentalAnalysisResult ==
    [pe_ratio |-> RInt(0), pb_ratio |-> RInt(0), roe |-> RInt(0),
     revenue_growth |-> RInt(0), profit_growth |-> RInt(0),
     debt_ratio |-> RInt(0), valuation |-> "", financial_health |-> "",
     score |-> RInt(0), signals |-> <<>>]

\* the placeholder figures analyze fills in per board
MockFinancials(sym) ==
    CASE sym = "60" ->
           [FundamentalAnalysisResult EXCEPT
              !.pe_ratio = RInt(25), !.pb_ratio = Rat(35, 10), !.roe = Rat(12, 100),
              !.revenue_growth = Rat(8, 100), !.profit_growth = Rat(10, 100),
              !.debt_ratio = Rat(45, 100)]
      [] sym = "00" ->
           [FundamentalAnalysisResult EXCEPT
              !.pe_ratio = RInt(30), !.pb_ratio = RInt(4), !.roe = Rat(15, 100),
              !.revenue_growth = Rat(12, 100), !.profit_growth = Rat(15, 100),
              !.debt_ratio = Rat(50, 100)]
      [] sym = "30" ->
           [FundamentalAnalysisResult EXCEPT
              !.pe_ratio = RInt(40), !.pb_ratio = RInt(5), !.roe = Rat(18, 100),
              !.revenue_growth = Rat(20, 100), !.profit_growth = Rat(25, 100),
              !.debt_ratio = Rat(40, 100)]
      [] OTHER ->
           [FundamentalAnalysisResult EXCEPT
              !.pe_ratio = RInt(20), !.pb_ratio = Rat(25, 10), !.roe = Rat(10, 100),
              !.revenue_growth = Rat(5, 100), !.profit_growth = Rat(6, 100),
              !.debt_ratio = Rat(55, 100)]

\* the sum FundamentalAnalysisAgent._calculate_score accumulates before it
\* limits it
FundamentalRawScore(result) ==
    LET avg_growth == RDiv(RAdd(result.revenue_growth, result.profit_growth), RInt(2))
    IN  RAdd(RAdd(RAdd(
          IF RLt(result.pe_ratio, RInt(20)) THEN Rat(20, 100)
          ELSE IF RLt(result.pe_ratio, RInt(30)) THEN Rat(10, 100)
          ELSE Rat(-10, 100),
          IF RGt(result.roe, Rat(15, 100)) THEN Rat(25, 100)
          ELSE IF RGt(result.roe, Rat(10, 100)) THEN Rat(15, 100)
          ELSE Rat(5, 100)),
          IF RGt(avg_growth, Rat(15, 100)) THEN Rat(25, 100)
          ELSE IF RGt(avg_growth, Rat(10, 100)) THEN Rat(15, 100)
          ELSE IF RGt(avg_growth, Rat(5, 100)) THEN Rat(5, 100)
          ELSE RInt(0)),
          IF RLt(result.debt_ratio, Rat(40, 100)) THEN Rat(15, 100)
          ELSE IF RLt(result.debt_ratio, Rat(60, 100)) THEN Rat(10, 100)
          ELSE Rat(-10, 100))

FundamentalScore(result) == Clamp01(FundamentalRawScore(result))

FundamentalSignals(result) ==
    IF result.valuation = "under" /\ result.financial_health \in {"excellent", "good"}
      THEN <<"strongly_favourable">>
    ELSE IF result.valuation = "under" THEN <<"low_valuation">>
    ELSE IF result.valuation = "over" THEN <<"high_valuation">>
    ELSE <<"fundamentals_neutral">>

\* FundamentalAnalysisAgent.analyze
FundamentalAnalyze(sym) ==
    LET r0 == MockFinancials(sym)
        r1 == [r0 EXCEPT
                 !.valuation = IF RLt(r0.pe_ratio, RInt(20)) THEN "under"
                               ELSE IF RLt(r0.pe_ratio, RInt(35)) THEN "fair"
                               ELSE "over",
                 !.financial_health =
                     IF RGt(r0.roe, Rat(15, 100)) /\ RLt(r0.debt_ratio, Rat(5, 10))
                       THEN "excellent"
                     ELSE IF RGt(r0.roe, Rat(10, 100)) /\ RLt(r0.debt_ratio, Rat(6, 10))
                       THEN "good"
                     ELSE "average"]
        r2 == [r1 EXCEPT !.score = FundamentalScore(r1)]
    IN  [r2 EXCEPT !.signals = FundamentalSignals(r2)]

---------------------------------------------------------------------------
(* News provider and SentimentAnalysisAgent *)

\* a news item, by whether its title holds a positive and a negative keyword
NewsItem(has_positive, has_negative) ==
    [has_positive |-> has_positive, has_negative |-> has_negative]

\* a feed of total items: pos positive titles, then neg negative ones, then
\* titles with no keyword or with keywords of both kinds
Feed(total, pos, neg) ==
    [i \in 1..total |->
        IF i <= pos THEN NewsItem(TRUE, FALSE)
        ELSE IF i <= pos + neg THEN NewsItem(FALSE, TRUE)
        ELSE NewsItem(i % 2 = 0, i % 2 = 0)]

\* the feeds fetch_news may return: empty, low, medium and high market heat
NewsTotals == {0, 3, 11, 21}

NewsFeeds ==
    {Feed(t, p, n) : <<t, p, n>> \in
        {x \in NewsTotals \X (0..21) \X (0..21) :
            /\ x[2] \in {0, x[1] \div 3, x[1]}
            /\ x[3] \in {0, x[1] \div 3, x[1]}
            /\ x[2] + x[3] <= x[1]}}

RECURSIVE CountItems(_, _, _)
CountItems(news_list, has_positive, has_negative) ==
    IF news_list = <<>> THEN 0
    ELSE (IF Head(news_list).has_positive = has_positive
             /\ Head(news_list).has_negative = has_negative THEN 1 ELSE 0)
         + CountItems(Tail(news_list), has_positive, has_negative)

\* NewsDataProvider.analyze_sentiment
AnalyzeSentiment(news_list) ==
    IF news_list = <<>>
    THEN [sentiment |-> "neutral", score |-> RInt(0)]
    ELSE LET positive_count == CountItems(news_list, TRUE, FALSE)
             negative_count == CountItems(news_list, FALSE, TRUE)
             total == Len(news_list)
             sentiment_score == Rat(positive_count - negative_count, total)
         IN  [sentiment |-> IF RGt(sentiment_score, Rat(2, 10)) THEN "positive"
                            ELSE IF RLt(sentiment_score, Rat(-2, 10)) THEN "negative"
                            ELSE "neutral",
              score |-> sentiment_score]

SentimentAnalysisResult ==
    [news_sentiment |-> "", event_impact |-> "", market_heat |-> "",
     sentiment_score |-> RInt(0), social_mentions |-> 0, score |-> RInt(0),
     signals |-> <<>>]

\* the score SentimentAnalysisAgent._calculate_score computes before it
\* limits it
SentimentRawScore(result) ==
    LET score == RDiv(RAdd(result.sentiment_score, RInt(1)), RInt(2))
    IN  IF result.market_heat = "high" THEN RMul(score, Rat(11, 10))
        ELSE IF result.market_heat = "low" THEN RMul(score, Rat(9, 10))
        ELSE score

SentimentScore(result) == Clamp01(SentimentRawScore(result))

SentimentSignals(result) ==
    (IF RGt(result.sentiment_score, Rat(5, 10)) THEN <<"strongly_bullish_mood">>
     ELSE IF RGt(result.sentiment_score, Rat(2, 10)) THEN <<"bullish_mood">>
     ELSE IF RLt(result.sentiment_score, Rat(-5, 10)) THEN <<"strongly_bearish_mood">>
     ELSE IF RLt(result.sentiment_score, Rat(-2, 10)) THEN <<"bearish_mood">>
     ELSE <<"neutral_mood">>)
    \o (IF result.event_impact = "good_news" THEN <<"has_good_news">>
        ELSE IF result.event_impact = "bad_news" THEN <<"has_bad_news">>
        ELSE <<>>)

\* SentimentAnalysisAgent.analyze, on the news list the provider returned
SentimentAnalyze(news_list) ==
    LET sentiment == AnalyzeSentiment(news_list)
        r1 == [SentimentAnalysisResult EXCEPT
                 !.news_sentiment = sentiment.sentiment,
                 !.sentiment_score = sentiment.score,
                 !.social_mentions = Len(news_list),
                 !.event_impact = IF sentiment.sentiment = "positive" THEN "good_news"
                                  ELSE IF sentiment.sentiment = "negative" THEN "bad_news"
                                  ELSE "no_impact",
                 !.market_heat = IF Len(news_list) > 20 THEN "high"
                                 ELSE IF Len(news_list) > 10 THEN "mid"
                                 ELSE "low"]
        r2 == [r1 EXCEPT !.score = SentimentScore(r1)]
    IN  [r2 EXCEPT !.signals = SentimentSignals(r2)]

---------------------------------------------------------------------------
(* DebateAgent *)

DebateResult ==
    [bull_score |-> RInt(0), bear_score |-> RInt(0), bull_arguments |-> <<>>,
     bear_arguments |-> <<>>, consensus |-> "", score |-> RInt(0),
     signals |-> <<>>]

CollectBullArguments(tr, fr, sr) ==
    If(tr.trend = "up", <<"trend", tr.trend>>)
    \o If(tr.position = "low", <<"position", tr.position>>)
    \o If(fr.valuation = "under", <<"valuation", "under">>)
    \o If(fr.financial_health \in {"excellent", "good"},
          <<"health", fr.financial_health>>)
    \o If(sr.news_sentiment = "positive", <<"news", "positive">>)
    \o If(sr.event_impact = "good_news", <<"event", "good_news">>)

CollectBearArguments(tr, fr, sr) ==
    If(tr.trend = "down", <<"trend", tr.trend>>)
    \o If(tr.position = "high", <<"position", tr.position>>)
    \o If(fr.valuation = "over", <<"valuation", "over">>)
    \o If(fr.financial_health = "average", <<"health", "average">>)
    \o If(sr.news_sentiment = "negative", <<"news", "negative">>)
    \o If(sr.event_impact = "bad_news", <<"event", "bad_news">>)

\* technical 40%, fundamental 30%, sentiment 30%
\* _calculate_bull_score with the three scores weighted alike
CalculateBullScore_EqualWeights(technical_score, fundamental_score, sentiment_score) ==
    RDiv(RAdd(RAdd(technical_score, fundamental_score), sentiment_score), RInt(3))

CalculateBullScore(technical_score, fundamental_score, sentiment_score) ==
    RAdd(RAdd(RMul(technical_score, Rat(4, 10)),
              RMul(fundamental_score, Rat(3, 10))),
         RMul(sentiment_score, Rat(3, 10)))

\* _calculate_bear_score returning the negated bull score
CalculateBearScore_Negated(technical_score, fundamental_score, sentiment_score) ==
    RSub(RInt(0), CalculateBullScore(technical_score, fundamental_score, sentiment_score))

CalculateBearScore(technical_score, fundamental_score, sentiment_score) ==
    RSub(RInt(1), CalculateBullScore(technical_score, fundamental_score, sentiment_score))

\* _reach_consensus with the band closed: diff <= 0.1
ReachConsensus_Inclusive(bull_score, bear_score) ==
    LET diff == RAbs(RSub(bull_score, bear_score))
    IN  IF RLe(diff, Rat(1, 10)) THEN "neutral"
        ELSE IF RGt(bull_score, bear_score) THEN "bullish"
        ELSE "bearish"

ReachConsensus(bull_score, bear_score) ==
    LET diff == RAbs(RSub(bull_score, bear_score))
    IN  IF RLt(diff, Rat(1, 10)) THEN "neutral"
        ELSE IF RGt(bull_score, bear_score) THEN "bullish"
        ELSE "bearish"

DebateSignals(result) ==
    IF result.consensus = "bullish" THEN <<"bulls_lead">>
    ELSE IF result.consensus = "bearish" THEN <<"bears_lead">>
    ELSE <<"balanced">>

\* the scores debate computes before it divides
DebateScores(tr, fr, sr) ==
    [DebateResult EXCEPT
       !.bull_arguments = CollectBullArguments(tr, fr, sr),
       !.bear_arguments = CollectBearArguments(tr, fr, sr),
       !.bull_score = CalculateBullScore(tr.score, fr.score, sr.score),
       !.bear_score = CalculateBearScore(tr.score, fr.score, sr.score)]

\* result.bull_score / (result.bull_score + result.bear_score) divides by zero
DebateRaises(tr, fr, sr) ==
    LET r == DebateScores(tr, fr, sr)
    IN  RIsZero(RAdd(r.bull_score, r.bear_score))

\* DebateAgent.debate, when the division is defined
Debate(tr, fr, sr) ==
    LET r1 == DebateScores(tr, fr, sr)
        r2 == [r1 EXCEPT
                 !.consensus = ReachConsensus(r1.bull_score, r1.bear_score),
                 !.score = RDiv(r1.bull_score, RAdd(r1.bull_score, r1.bear_score))]
    IN  [r2 EXCEPT !.signals = DebateSignals(r2)]

---------------------------------------------------------------------------
(* DecisionAgent *)

stop_loss_pct == Rat(3, 100)
take_profit_pct == Rat(5, 100)

\* _determine_action with the first threshold read as "above 0.7"
DetermineAction_StrictStrongBuy(overall_score, consensus) ==
    IF RGt(overall_score, Rat(7, 10)) /\ consensus = "bullish"
      THEN <<"buy", RMin(Rat(9, 10), RAdd(overall_score, Rat(1, 10)))>>
    ELSE IF RGe(overall_score, Rat(5, 10)) /\ consensus = "bullish"
      THEN <<"buy", overall_score>>
    ELSE IF RLe(overall_score, Rat(3, 10)) /\ consensus = "bearish"
      THEN <<"sell", RMin(Rat(9, 10), RAdd(RSub(RInt(1), overall_score), Rat(1, 10)))>>
    ELSE IF RLe(overall_score, Rat(4, 10)) /\ consensus = "bearish"
      THEN <<"sell", RSub(RInt(1), overall_score)>>
    ELSE <<"hold", Rat(5, 10)>>

\* _determine_action with the strong-buy bonus subtracted instead of added
DetermineAction_BonusSubtracted(overall_score, consensus) ==
    IF RGe(overall_score, Rat(7, 10)) /\ consensus = "bullish"
      THEN <<"buy", RMin(Rat(9, 10), RSub(overall_score, Rat(1, 10)))>>
    ELSE IF RGe(overall_score, Rat(5, 10)) /\ consensus = "bullish"
      THEN <<"buy", overall_score>>
    ELSE IF RLe(overall_score, Rat(3, 10)) /\ consensus = "bearish"
      THEN <<"sell", RMin(Rat(9, 10), RAdd(RSub(RInt(1), overall_score), Rat(1, 10)))>>
    ELSE IF RLe(overall_score, Rat(4, 10)) /\ consensus = "bearish"
      THEN <<"sell", RSub(RInt(1), overall_score)>>
    ELSE <<"hold", Rat(5, 10)>>

\* DecisionAgent._determine_action: <<action, confidence>>
DetermineAction(overall_score, consensus) ==
    IF RGe(overall_score, Rat(7, 10)) /\ consensus = "bullish"
      THEN <<"buy", RMin(Rat(9, 10), RAdd(overall_score, Rat(1, 10)))>>
    ELSE IF RGe(overall_score, Rat(5, 10)) /\ consensus = "bullish"
      THEN <<"buy", overall_score>>
    ELSE IF RLe(overall_score, Rat(3, 10)) /\ consensus = "bearish"
      THEN <<"sell", RMin(Rat(9, 10), RAdd(RSub(RInt(1), overall_score), Rat(1, 10)))>>
    ELSE IF RLe(overall_score, Rat(4, 10)) /\ consensus = "bearish"
      THEN <<"sell", RSub(RInt(1), overall_score)>>
    ELSE <<"hold", Rat(5, 10)>>

\* _calculate_prices that also sets a stop for a sell
CalculatePrices_StopOnSell(action, current_price, tr) ==
    IF action = "buy"
    THEN [buy_price |-> Some(current_price),
          sell_price |-> None,
          stop_loss |-> Some(RMul(current_price, RSub(RInt(1), stop_loss_pct))),
          target_price |->
              IF tr.position = "low"
              THEN Some(RMul(current_price,
                             RAdd(RAdd(RInt(1), take_profit_pct), Rat(2, 100))))
              ELSE Some(RMul(current_price, RAdd(RInt(1), take_profit_pct)))]
    ELSE IF action = "sell"
    THEN [buy_price |-> None, sell_price |-> Some(current_price),
          stop_loss |-> Some(RMul(current_price, RAdd(RInt(1), stop_loss_pct))),
          target_price |-> None]
    ELSE [buy_price |-> None, sell_price |-> None,
          stop_loss |-> None, target_price |-> None]

\* _calculate_prices with the stop placed above the price
CalculatePrices_StopAbove(action, current_price, tr) ==
    IF action = "buy"
    THEN [buy_price |-> Some(current_price),
          sell_price |-> None,
          stop_loss |-> Some(RMul(current_price, RAdd(RInt(1), stop_loss_pct))),
          target_price |->
              IF tr.position = "low"
              THEN Some(RMul(current_price,
                             RAdd(RAdd(RInt(1), take_profit_pct), Rat(2, 100))))
              ELSE Some(RMul(current_price, RAdd(RInt(1), take_profit_pct)))]
    ELSE IF action = "sell"
    THEN [buy_price |-> None, sell_price |-> Some(current_price),
          stop_loss |-> None, target_price |-> None]
    ELSE [buy_price |-> None, sell_price |-> None,
          stop_loss |-> None, target_price |-> None]

\* DecisionAgent._calculate_prices
CalculatePrices(action, current_price, tr) ==
    IF action = "buy"
    THEN [buy_price |-> Some(current_price),
          sell_price |-> None,
          stop_loss |-> Some(RMul(current_price, RSub(RInt(1), stop_loss_pct))),
          target_price |->
              IF tr.position = "low"
              THEN Some(RMul(current_price,
                             RAdd(RAdd(RInt(1), take_profit_pct), Rat(2, 100))))
              ELSE Some(RMul(current_price, RAdd(RInt(1), take_profit_pct)))]
    ELSE IF action = "sell"
    THEN [buy_price |-> None, sell_price |-> Some(current_price),
          stop_loss |-> None, target_price |-> None]
    ELSE [buy_price |-> None, sell_price |-> None,
          stop_loss |-> None, target_price |-> None]

CollectReasons(tr, fr, sr, dr) ==
    If(tr.trend # "flat", <<"trend", tr.trend>>)
    \o If(tr.position # "mid", <<"position", tr.position>>)
    \o If(tr.volume_price # "", <<"volume_price", tr.volume_price>>)
    \o If(fr.valuation # "fair", <<"valuation", fr.valuation>>)
    \o If(fr.financial_health # "average", <<"health", fr.financial_health>>)
    \o If(sr.news_sentiment # "neutral", <<"news", sr.news_sentiment>>)
    \o If(sr.event_impact # "no_impact", <<"event", sr.event_impact>>)
    \o If(dr.consensus # "neutral", <<"debate", dr.consensus>>)

\* the blend make_decision computes itself
OverallScore(tr, fr, sr) ==
    RAdd(RAdd(RMul(tr.score, Rat(4, 10)), RMul(fr.score, Rat(3, 10))),
         RMul(sr.score, Rat(3, 10)))

NoDecision == <<>>

\* DecisionAgent.make_decision; stocks is what fetch_stock_data returned,
\* <<>> when it returned None or an empty list
MakeDecision(sym, tr, fr, sr, dr, stocks) ==
    LET current_price == IF stocks = <<>> THEN RInt(0) ELSE RInt(stocks[1].price)
        overall_score == OverallScore(tr, fr, sr)
        ac == DetermineAction(overall_score, dr.consensus)
        action == ac[1]
        prices == CalculatePrices(action, current_price, tr)
    IN  [symbol |-> sym,
         action |-> action,
         confidence |-> ac[2],
         buy_price |-> IF action = "buy" THEN prices.buy_price ELSE Some(current_price),
         sell_price |-> IF action = "sell" THEN prices.sell_price ELSE None,
         stop_loss |-> prices.stop_loss,
         target_price |-> prices.target_price,
         reasons |-> CollectReasons(tr, fr, sr, dr),
         technical_score |-> tr.score,
         fundamental_score |-> fr.score,
         sentiment_score |-> sr.score,
         overall_score |-> overall_score]

---------------------------------------------------------------------------
(* ScoringSystem *)

\* ScoreWeights(): the default weight profile
ScoreWeights ==
    [trend |-> Rat(25, 100), position |-> Rat(20, 100), pattern |-> Rat(20, 100),
     volume_price |-> Rat(15, 100), indicator |-> Rat(20, 100)]

\* ScoreWeights.__post_init__: the weights are divided by their total when
\* the total is further than 0.01 from 1
PostInit(w) ==
    LET total == RAdd(RAdd(RAdd(RAdd(w.trend, w.position), w.pattern),
                           w.volume_price), w.indicator)
    IN  IF RGt(RAbs(RSub(total, RInt(1))), Rat(1, 100))
        THEN [trend |-> RDiv(w.trend, total),
              position |-> RDiv(w.position, total),
              pattern |-> RDiv(w.pattern, total),
              volume_price |-> RDiv(w.volume_price, total),
              indicator |-> RDiv(w.indicator, total)]
        ELSE w

\* the sum of the five weights of a profile
WeightTotal(w) ==
    RAdd(RAdd(RAdd(RAdd(w.trend, w.position), w.pattern), w.volume_price),
         w.indicator)

ScoreTrend(trend) ==
    IF trend = "up" THEN Rat(85, 100)
    ELSE IF trend = "down" THEN Rat(15, 100)
    ELSE IF trend = "flat" THEN Rat(50, 100)
    ELSE RInt(0)

ScorePosition(position) ==
    IF position = "low" THEN Rat(85, 100)
    ELSE IF position = "mid" THEN Rat(50, 100)
    ELSE IF position = "high" THEN Rat(15, 100)
    ELSE RInt(0)

\* quality_scores.get(pattern, 0.5)
QualityScore(pattern) ==
    CASE pattern \in {"head_shoulders_top", "head_shoulders_bottom"} -> Rat(90, 100)
      [] pattern \in {"double_top", "double_bottom"} -> Rat(85, 100)
      [] pattern \in {"ascending_triangle", "descending_triangle",
                      "bull_flag", "bear_flag"} -> Rat(80, 100)
      [] pattern \in {"symmetric_triangle", "bottom_flat", "bull_engulf"} -> Rat(75, 100)
      [] pattern \in {"rising_wedge", "falling_wedge", "ma_bull", "ma_golden"}
           -> Rat(70, 100)
      [] pattern \in {"ma_bear", "ma_dead"} -> Rat(30, 100)
      [] pattern = "bear_engulf" -> Rat(25, 100)
      [] OTHER -> Rat(50, 100)

bullish_patterns ==
    {"head_shoulders_bottom", "double_bottom", "bottom_flat", "ma_bull",
     "bull_engulf", "ma_golden"}

bearish_patterns ==
    {"head_shoulders_top", "double_top", "ma_bear", "bear_engulf", "ma_dead"}

RECURSIVE QualityTotal(_)
QualityTotal(patterns) ==
    IF patterns = <<>> THEN RInt(0)
    ELSE RAdd(QualityScore(Head(patterns)), QualityTotal(Tail(patterns)))

Range(s) == {s[i] : i \in 1..Len(s)}

\* ScoringSystem._score_patterns: <<score, details>>
ScorePatterns(patterns) ==
    IF patterns = <<>> THEN <<RInt(0), <<>>>>
    ELSE LET avg_score == RDiv(QualityTotal(patterns), RInt(Len(patterns)))
             up == IF Range(patterns) \cap bullish_patterns # {}
                   THEN RMin(RInt(1), RAdd(avg_score, Rat(1, 10)))
                   ELSE avg_score
             dn == IF Range(patterns) \cap bearish_patterns # {}
                   THEN RMax(RInt(0), RSub(up, Rat(1, 10)))
                   ELSE up
         IN  <<dn, [p \in Range(patterns) |-> QualityScore(p)]>>

ScoreVolumePrice(volume_price) ==
    IF volume_price = "vol_up_rise" THEN Rat(90, 100)
    ELSE IF volume_price = "vol_dn_fall" THEN Rat(80, 100)
    ELSE IF volume_price = "vol_up_fall" THEN Rat(15, 100)
    ELSE IF volume_price = "vol_dn_rise" THEN Rat(60, 100)
    ELSE Rat(50, 100)

ScoreIndicators(indicators) ==
    LET rsi == Get(indicators, "RSI", RInt(50))
        macd == Get(indicators, "MACD", RInt(0))
        s0 == Rat(5, 10)
        s1 == IF RLt(rsi, RInt(30)) THEN RAdd(s0, Rat(25, 100))
              ELSE IF RLt(rsi, RInt(40)) THEN RAdd(s0, Rat(10, 100))
              ELSE IF RGt(rsi, RInt(70)) THEN RSub(s0, Rat(25, 100))
              ELSE IF RGt(rsi, RInt(60)) THEN RSub(s0, Rat(10, 100))
              ELSE s0
        s2 == IF RGt(macd, RInt(0)) THEN RAdd(s1, Rat(15, 100))
              ELSE IF RLt(macd, RInt(0)) THEN RSub(s1, Rat(15, 100))
              ELSE s1
    IN  Clamp01(s2)

\* ScoringSystem.calculate_technical_score under the weights w; the result's
\* weights field is the ScoringSystem's own weights object, not a copy
CalculateTechnicalScore(w, trend, position, patterns, volume_price, indicators) ==
    LET trend_score == ScoreTrend(trend)
        position_score == ScorePosition(position)
        sp == ScorePatterns(patterns)
        volume_price_score == ScoreVolumePrice(volume_price)
        indicator_score == ScoreIndicators(indicators)
        overall == RAdd(RAdd(RAdd(RAdd(
                      RMul(trend_score, w.trend),
                      RMul(position_score, w.position)),
                      RMul(sp[1], w.pattern)),
                      RMul(volume_price_score, w.volume_price)),
                      RMul(indicator_score, w.indicator))
    IN  [trend_score |-> trend_score,
         position_score |-> position_score,
         pattern_score |-> sp[1],
         volume_price_score |-> volume_price_score,
         indicator_score |-> indicator_score,
         overall_score |-> Clamp01(overall),
         weights |-> "self.weights",
         details |-> [k \in {"patterns"} |-> sp[2]]]

\* what the holder of a result reads from it: result.weights is the weights
\* object of the ScoringSystem (result.weights = self.weights), so its fields
\* are the system's current weights w
ReadResult(result, w) ==
    [result EXCEPT !.weights = IF @ = "self.weights" THEN w ELSE @]

\* ScoringSystem.adjust_weights
AdjustedWeights(w, market_condition) ==
    IF market_condition = "trending"
    THEN [trend |-> Rat(35, 100), position |-> Rat(25, 100), pattern |-> Rat(15, 100),
          volume_price |-> Rat(10, 100), indicator |-> Rat(15, 100)]
    ELSE IF market_condition = "ranging"
    THEN [trend |-> Rat(15, 100), position |-> Rat(15, 100), pattern |-> Rat(35, 100),
          volume_price |-> Rat(25, 100), indicator |-> Rat(10, 100)]
    ELSE IF market_condition = "volatile"
    THEN [trend |-> Rat(20, 100), position |-> Rat(20, 100), pattern |-> Rat(15, 100),
          volume_price |-> Rat(25, 100), indicator |-> Rat(20, 100)]
    ELSE w

\* the arguments the ScoringSystem is called with
TrendLabels == {"up", "down", "flat", "unknown"}
PositionLabels == {"low", "mid", "high", "unknown"}
VolumePriceLabels ==
    {"vol_up_rise", "vol_up_fall", "vol_dn_rise", "vol_dn_fall", "vol_normal", "unknown"}
PatternLists ==
    {<<>>, <<"head_shoulders_bottom">>, <<"head_shoulders_top">>,
     <<"symmetric_triangle">>, <<"bear_engulf">>, <<"ma_golden">>,
     <<"rounding_bottom">>, <<"double_bottom", "bull_flag">>,
     <<"bear_engulf", "ma_dead">>, <<"bottom_flat", "ma_bear">>}
IndicatorDicts ==
    {[k \in ks |-> IF k = "RSI" THEN RInt(rsi) ELSE RInt(macd)] :
        ks \in SUBSET {"RSI", "MACD"}, rsi \in {25, 35, 65, 75}, macd \in {-1, 1}}
\* the positive weights a ScoreWeights is constructed with
WeightInputs ==
    [trend : {Rat(25, 100), Rat(30, 100), RInt(1)},
     position : {Rat(20, 100), Rat(10, 100), RInt(2)},
     pattern : {Rat(20, 100), Rat(1, 100), RInt(3)},
     volume_price : {Rat(15, 100), Rat(152, 1000), RInt(1)},
     indicator : {Rat(20, 100), Rat(205, 1000), Rat(30, 100)}]
MarketConditions == {"trending", "ranging", "volatile", "sideways"}

---------------------------------------------------------------------------
(* TradingAgentsGraph.propagate: one call at a time, stage by stage *)

\* what fetch_stock_data returns: <<>> (None or an empty list) or one quote
StockReplies == {<<>>} \cup {<<q>> : q \in Quotes}

\* what fetch_historical_data returns: None or a list of candles
HistoryReplies ==
    {[returned |-> "none", candles |-> <<>>]}
    \cup {[returned |-> "list", candles |-> h] : h \in Histories}

\* the test with the minimum of _analyze_trend: len(candles) < 5
InsufficientHistory_Five(hist) == hist.returned = "none" \/ Len(hist.candles) < 5

\* analyze's test "not candles or len(candles) < 10"
InsufficientHistory(hist) == hist.returned = "none" \/ Len(hist.candles) < 10

\* the not yet computed results of a call
NoResults ==
    /\ technical_result = TechnicalAnalysisResult
    /\ fundamental_result = FundamentalAnalysisResult
    /\ sentiment_result = SentimentAnalysisResult
    /\ debate_result = DebateResult
    /\ decision = NoDecision
    /\ provider = NoFetch
    /\ exc = "none"

\* a caller calls propagate(symbol)
Propagate ==
    /\ pc = "idle"
    /\ \E sym \in Symbols : symbol' = sym
    /\ pc' = "technical"
    /\ UNCHANGED <<provider, technical_result, fundamental_result, sentiment_result,
                   debate_result, decision, exc, unit_vars, scoring_vars, shared_vars, ledger_vars, data_cache_vars>>

\* TechnicalAnalysisAgent.analyze
TechnicalStep ==
    /\ pc = "technical"
    /\ \E stocks \in StockReplies, hist \in HistoryReplies :
         \/ \* no realtime quote: the default result, the history is not fetched
            /\ stocks = <<>>
            /\ provider' = [quote |-> "none", price |-> 0, history |-> "unused",
                            n |-> 0]
            /\ technical_result' = TechnicalAnalysisResult
            /\ pc' = "fundamental"
            /\ exc' = exc
         \/ \* no history or fewer than 10 candles: the default result
            /\ stocks # <<>>
            /\ InsufficientHistory(hist)
            /\ provider' = [quote |-> "ok", price |-> stocks[1].price,
                            history |-> hist.returned, n |-> Len(hist.candles)]
            /\ technical_result' = TechnicalAnalysisResult
            /\ pc' = "fundamental"
            /\ exc' = exc
         \/ \* _analyze_trend raises IndexError
            /\ stocks # <<>>
            /\ ~InsufficientHistory(hist)
            /\ AnalyzeTrendRaises(hist.candles)
            /\ provider' = [quote |-> "ok", price |-> stocks[1].price,
                            history |-> "list", n |-> Len(hist.candles)]
            /\ technical_result' = technical_result
            /\ pc' = "raised"
            /\ exc' = "IndexError"
         \/ \* the seven analysis steps
            /\ stocks # <<>>
            /\ ~InsufficientHistory(hist)
            /\ ~AnalyzeTrendRaises(hist.candles)
            /\ provider' = [quote |-> "ok", price |-> stocks[1].price,
                            history |-> "list", n |-> Len(hist.candles)]
            /\ technical_result' = AnalyzeSteps(hist.candles, stocks[1])
            /\ pc' = "fundamental"
            /\ exc' = exc
    /\ UNCHANGED <<symbol, fundamental_result, sentiment_result, debate_result,
                   decision, unit_vars, scoring_vars, shared_vars, ledger_vars, data_cache_vars>>

\* FundamentalAnalysisAgent.analyze
FundamentalStep ==
    /\ pc = "fundamental"
    /\ fundamental_result' = FundamentalAnalyze(symbol)
    /\ provider' = NoFetch
    /\ pc' = "sentiment"
    /\ UNCHANGED <<symbol, technical_result, sentiment_result, debate_result,
                   decision, exc, unit_vars, scoring_vars, shared_vars, ledger_vars, data_cache_vars>>

\* SentimentAnalysisAgent.analyze
SentimentStep ==
    /\ pc = "sentiment"
    /\ \E news_list \in NewsFeeds : sentiment_result' = SentimentAnalyze(news_list)
    /\ pc' = "debate"
    /\ UNCHANGED <<symbol, provider, technical_result, fundamental_result,
                   debate_result, decision, exc, unit_vars, scoring_vars, shared_vars, ledger_vars, data_cache_vars>>

\* DebateAgent.debate
DebateStep ==
    /\ pc = "debate"
    /\ \/ /\ DebateRaises(technical_result, fundamental_result, sentiment_result)
          /\ pc' = "raised"
          /\ exc' = "ZeroDivisionError"
          /\ debate_result' = debate_result
       \/ /\ ~DebateRaises(technical_result, fundamental_result, sentiment_result)
          /\ debate_result' = Debate(technical_result, fundamental_result,
                                     sentiment_result)
          /\ pc' = "decision"
          /\ exc' = exc
    /\ UNCHANGED <<symbol, provider, technical_result, fundamental_result,
                   sentiment_result, decision, unit_vars, scoring_vars, shared_vars, ledger_vars, data_cache_vars>>

\* DecisionAgent.make_decision, which fetches the quote again
DecisionStep ==
    /\ pc = "decision"
    /\ \E stocks \in StockReplies :
         /\ decision' = Some(MakeDecision(symbol, technical_result,
                                 fundamental_result, sentiment_result,
                                 debate_result, stocks))
         /\ provider' = IF stocks = <<>>
                         THEN [NoFetch EXCEPT !.quote = "none"]
                         ELSE [NoFetch EXCEPT !.quote = "ok",
                                              !.price = stocks[1].price]
    /\ pc' = "done"
    /\ UNCHANGED <<symbol, technical_result, fundamental_result,
                   sentiment_result, debate_result, exc, unit_vars, scoring_vars, shared_vars, ledger_vars, data_cache_vars>>

\* propagate returned its decision or raised; the graph is ready for the next call
Return ==
    /\ pc \in {"done", "raised"}
    /\ pc' = "idle"
    /\ technical_result' = TechnicalAnalysisResult
    /\ fundamental_result' = FundamentalAnalysisResult
    /\ sentiment_result' = SentimentAnalysisResult
    /\ debate_result' = DebateResult
    /\ decision' = NoDecision
    /\ provider' = NoFetch
    /\ exc' = "none"
    /\ UNCHANGED <<symbol, unit_vars, scoring_vars, shared_vars, ledger_vars, data_cache_vars>>

---------------------------------------------------------------------------
(* Direct calls of the pure methods _determine_action and _reach_consensus *)

Grid == {Rat(k, GridSteps) : k \in 0..GridSteps}

ConsensusLabels == {"bullish", "bearish", "neutral"}

\* _determine_action(s1, consensus) and _determine_action(s2, consensus)
CallDetermineAction ==
    /\ unit_pc = "ready"
    /\ unit_out' = <<DetermineAction(unit_in.s1, unit_in.consensus),
                     DetermineAction(unit_in.s2, unit_in.consensus)>>
    /\ unit_pc' = "determined"
    /\ UNCHANGED <<unit_in, pipeline_vars, scoring_vars, shared_vars, ledger_vars, data_cache_vars>>

\* _reach_consensus(bull_score = s1, bear_score = s2)
CallReachConsensus ==
    /\ unit_pc = "ready"
    /\ unit_out' = <<ReachConsensus(unit_in.s1, unit_in.s2)>>
    /\ unit_pc' = "consensus"
    /\ UNCHANGED <<unit_in, pipeline_vars, scoring_vars, shared_vars, ledger_vars, data_cache_vars>>

---------------------------------------------------------------------------
(* ScoringSystem: weights = <<>> while no ScoringSystem is constructed *)

\* calculate_technical_score; the caller holds one result at a time
CalculateTechnicalScoreCall ==
    /\ weights # <<>>
    /\ score_result = <<>>
    /\ \E trend \in TrendLabels, position \in PositionLabels,
          patterns \in PatternLists, volume_price \in VolumePriceLabels,
          indicators \in IndicatorDicts :
         score_result' = Some(CalculateTechnicalScore(weights[1], trend, position,
                                  patterns, volume_price, indicators))
    /\ UNCHANGED <<weights, pipeline_vars, unit_vars, shared_vars, ledger_vars, data_cache_vars>>

\* adjust_weights(market_condition)
AdjustWeights ==
    /\ weights # <<>>
    /\ \E market_condition \in MarketConditions :
         weights' = Some(AdjustedWeights(weights[1], market_condition))
    /\ UNCHANGED <<score_result, pipeline_vars, unit_vars, shared_vars, ledger_vars, data_cache_vars>>

\* the caller drops the result it holds
DropScoreResult ==
    /\ score_result # <<>>
    /\ score_result' = <<>>
    /\ UNCHANGED <<weights, pipeline_vars, unit_vars, shared_vars, ledger_vars, data_cache_vars>>

\* the two technical scorers called with the same analysis: the arguments of
\* calculate_technical_score are the fields of the result _calculate_score reads
ScorerInputs ==
    [trend : TrendLabels, position : PositionLabels, patterns : PatternLists,
     volume_price : VolumePriceLabels, indicators : IndicatorDicts]

\* ScoringSystem.calculate_technical_score(trend, position, patterns,
\* volume_price, indicators)
CallCalculateTechnicalScore ==
    /\ unit_pc = "scorer"
    /\ unit_out' = <<CalculateTechnicalScore(weights[1], unit_in.trend,
                        unit_in.position, unit_in.patterns, unit_in.volume_price,
                        unit_in.indicators)>>
    /\ unit_pc' = "system_score"
    /\ UNCHANGED <<unit_in, pipeline_vars, scoring_vars, shared_vars, ledger_vars, data_cache_vars>>

\* TechnicalAnalysisAgent._calculate_score(result)
CallCalculateScore ==
    /\ unit_pc = "scorer"
    /\ unit_out' = <<CalculateScore([TechnicalAnalysisResult EXCEPT
                        !.trend = unit_in.trend,
                        !.position = unit_in.position,
                        !.patterns = unit_in.patterns,
                        !.volume_price = unit_in.volume_price,
                        !.indicators = unit_in.indicators])>>
    /\ unit_pc' = "agent_score"
    /\ UNCHANGED <<unit_in, pipeline_vars, scoring_vars, shared_vars, ledger_vars, data_cache_vars>>

---------------------------------------------------------------------------
(* The quote layer: stock_api.fetch_stock_data with the module-level cache  *)
(* and rate limiter that every caller of the process shares                 *)

\* rate_limiter = RateLimiter(max_requests=10, time_window=60)
max_requests == 10
time_window == 60

\* cache = StockDataCache(cache_ttl=60)
cache_ttl == 60

\* the clock stops at MaxTime seconds
MaxTime == 60

\* longest list of symbols given to batch_analyze
MaxBatch == 6

\* RateLimiter.can_request at time t: the answer and the requests afterwards
CanRequest(reqs, t) ==
    LET recent == SelectSeq(reqs, LAMBDA x : t - x < time_window)
    IN  IF Len(recent) >= max_requests
        THEN [granted |-> FALSE, requests |-> recent]
        ELSE [granted |-> TRUE, requests |-> Append(recent, t)]

\* the cache of a process that found no cache file
NoCache == [key \in Symbols |-> <<>>]

\* StockDataCache.get at time t: the data (None when absent or expired) and
\* the cache afterwards (an expired entry is deleted)
CacheGet(cch, key, t) ==
    IF cch[key] = <<>> THEN [data |-> None, cache |-> cch]
    ELSE IF t - cch[key][1].timestamp > cache_ttl
    THEN [data |-> None, cache |-> [cch EXCEPT ![key] = <<>>]]
    ELSE [data |-> Some(cch[key][1].data), cache |-> cch]

\* StockDataCache.set at time t
CacheSet(cch, key, data, t) ==
    [cch EXCEPT ![key] = <<[data |-> data, timestamp |-> t]>>]

\* fetch_stock_data([key], use_cache) at time t when the API would answer
\* upstream: the stocks returned (<<>> for None) and the limiter and cache
\* afterwards
FetchStockData(reqs, cch, t, key, use_cache, upstream) ==
    LET hit == CacheGet(cch, key, t)
        looked == IF use_cache THEN hit.cache ELSE cch
        lim == CanRequest(reqs, t)
        late == CacheGet(looked, key, t)
    IN  IF use_cache /\ hit.data # None /\ hit.data[1] # <<>>
        THEN [stocks |-> hit.data[1], requests |-> reqs, cache |-> hit.cache]
        ELSE IF ~lim.granted
        THEN [stocks |-> IF late.data # None THEN late.data[1] ELSE <<>>,
              requests |-> lim.requests, cache |-> late.cache]
        ELSE [stocks |-> upstream, requests |-> lim.requests,
              cache |-> IF upstream # <<>> /\ use_cache
                        THEN CacheSet(looked, key, upstream, t)
                        ELSE looked]

\* what the remote providers answer for a symbol, the same at every request
Market(sym) ==
    CASE sym = "60" ->
           [stocks |-> <<[price |-> 1200, volume |-> 2000, change_percent |-> 3]>>,
            history |-> [returned |-> "list", candles |-> Listed(History("rise", 22))],
            news |-> Listed(Feed(11, 11, 0))]
      [] sym = "00" ->
           [stocks |-> <<[price |-> 1000, volume |-> 2000, change_percent |-> -3]>>,
            history |-> [returned |-> "list", candles |-> Listed(History("fall", 22))],
            news |-> Listed(Feed(21, 0, 21))]
      [] sym = "30" ->
           [stocks |-> <<[price |-> 1000, volume |-> 1000, change_percent |-> 0]>>,
            history |-> [returned |-> "list", candles |-> Listed(History("flat", 15))],
            news |-> Listed(Feed(3, 1, 0))]
      [] OTHER ->
           [stocks |-> <<[price |-> 1020, volume |-> 500, change_percent |-> 0]>>,
            history |-> [returned |-> "none", candles |-> <<>>],
            news |-> Listed(Feed(0, 0, 0))]

\* TechnicalAnalysisAgent.analyze raises for these answers of the providers
AnalyzeRaises(stocks, hist) ==
    /\ stocks # <<>>
    /\ ~InsufficientHistory(hist)
    /\ AnalyzeTrendRaises(hist.candles)

\* the result of TechnicalAnalysisAgent.analyze when it does not raise
Analyze(stocks, hist) ==
    IF stocks = <<>> \/ InsufficientHistory(hist)
    THEN TechnicalAnalysisResult
    ELSE AnalyzeSteps(hist.candles, stocks[1])

\* the symbols of the batches and of the direct calls
BatchSymbols == {"60", "30"}

BatchLists == UNION {[1..n -> BatchSymbols] : n \in 1..MaxBatch}

\* time passes: half a limiter window
Tick ==
    /\ batch_pc \in {"running", "agents"}
    /\ now + (time_window \div 2) <= MaxTime
    /\ now' = now + (time_window \div 2)
    /\ UNCHANGED <<requests, cache, batch_pc, batch, decisions, last_calls,
                   pipeline_vars, unit_vars, scoring_vars, ledger_vars, data_cache_vars>>

\* a caller calls batch_analyze(symbols)
BatchAnalyze ==
    /\ batch_pc = "idle"
    /\ \E symbols \in BatchLists : batch' = symbols
    /\ decisions' = <<>>
    /\ batch_pc' = "running"
    /\ UNCHANGED <<fetch_vars, last_calls, pipeline_vars, unit_vars, scoring_vars, ledger_vars, data_cache_vars>>

\* one turn of the loop of batch_analyze: propagate(symbol), whose analyze
\* and make_decision each fetch the quote; the decision is appended unless
\* propagate raised
BatchStep ==
    /\ batch_pc = "running"
    /\ batch # <<>>
    /\ \E sym \in {Head(batch)} : \E m \in {Market(sym)} :
       \E f1 \in {FetchStockData(requests, cache, now, sym, FALSE, m.stocks)} :
         \/ /\ AnalyzeRaises(f1.stocks, m.history)
            /\ decisions' = decisions
            /\ requests' = f1.requests
            /\ cache' = f1.cache
         \/ /\ ~AnalyzeRaises(f1.stocks, m.history)
            /\ \E tr \in {Analyze(f1.stocks, m.history)},
                  fr \in {FundamentalAnalyze(sym)},
                  sr \in {SentimentAnalyze(m.news)} :
               \E f2 \in {FetchStockData(f1.requests, f1.cache, now, sym, FALSE,
                                         m.stocks)} :
                  /\ decisions' =
                       IF DebateRaises(tr, fr, sr) THEN decisions
                       ELSE Append(decisions,
                                   MakeDecision(sym, tr, fr, sr,
                                                Debate(tr, fr, sr), f2.stocks))
                  /\ requests' = IF DebateRaises(tr, fr, sr)
                                 THEN f1.requests ELSE f2.requests
                  /\ cache' = IF DebateRaises(tr, fr, sr)
                              THEN f1.cache ELSE f2.cache
    /\ batch' = Tail(batch)
    /\ UNCHANGED <<now, batch_pc, last_calls, pipeline_vars, unit_vars,
                   scoring_vars, ledger_vars, data_cache_vars>>

\* batch_analyze returns decisions
BatchReturn ==
    /\ batch_pc = "running"
    /\ batch = <<>>
    /\ batch_pc' = "returned"
    /\ UNCHANGED <<fetch_vars, batch, decisions, last_calls, pipeline_vars,
                   unit_vars, scoring_vars, ledger_vars, data_cache_vars>>

\* the log of the direct calls keeps the last two
Remember(call) ==
    IF Len(last_calls) < 2 THEN Append(last_calls, call)
    ELSE <<last_calls[2], call>>

\* the technical, fundamental and sentiment results a caller passes to debate
\* and make_decision for a symbol whose providers answer m
AgentResults(sym, m) ==
    [tr |-> IF AnalyzeRaises(m.stocks, m.history)
            THEN TechnicalAnalysisResult
            ELSE Analyze(m.stocks, m.history),
     fr |-> FundamentalAnalyze(sym),
     sr |-> SentimentAnalyze(m.news)]

\* a caller calls TechnicalAnalysisAgent.analyze(sym)
AnalyzeCall ==
    /\ batch_pc = "agents"
    /\ \E sym \in BatchSymbols : \E m \in {Market(sym)} :
       \E f \in {FetchStockData(requests, cache, now, sym, FALSE, m.stocks)} :
         /\ last_calls' = Remember(
               [method |-> "analyze", symbol |-> sym,
                result |-> IF AnalyzeRaises(f.stocks, m.history)
                           THEN <<"IndexError">>
                           ELSE <<"returned", Analyze(f.stocks, m.history)>>])
         /\ requests' = f.requests
         /\ cache' = f.cache
    /\ UNCHANGED <<now, batch_pc, batch, decisions, pipeline_vars, unit_vars,
                   scoring_vars, ledger_vars, data_cache_vars>>

\* a caller calls DebateAgent.debate with the results for sym
DebateCall ==
    /\ batch_pc = "agents"
    /\ \E sym \in BatchSymbols : \E m \in {Market(sym)} :
       \E a \in {AgentResults(sym, m)} :
         last_calls' = Remember(
             [method |-> "debate", symbol |-> sym,
              result |-> IF DebateRaises(a.tr, a.fr, a.sr)
                         THEN <<"ZeroDivisionError">>
                         ELSE <<"returned", Debate(a.tr, a.fr, a.sr)>>])
    /\ UNCHANGED <<fetch_vars, batch_pc, batch, decisions, pipeline_vars,
                   unit_vars, scoring_vars, ledger_vars, data_cache_vars>>

\* a caller calls DecisionAgent.make_decision with the results for sym
MakeDecisionCall ==
    /\ batch_pc = "agents"
    /\ \E sym \in BatchSymbols : \E m \in {Market(sym)} :
       \E a \in {AgentResults(sym, m)},
          f \in {FetchStockData(requests, cache, now, sym, FALSE, m.stocks)} :
         /\ ~DebateRaises(a.tr, a.fr, a.sr)
         /\ \E dr \in {Debate(a.tr, a.fr, a.sr)} :
              last_calls' = Remember(
                  [method |-> "make_decision", symbol |-> sym,
                   result |-> <<"returned",
                                MakeDecision(sym, a.tr, a.fr, a.sr, dr, f.stocks)>>])
         /\ requests' = f.requests
         /\ cache' = f.cache
    /\ UNCHANGED <<now, batch_pc, batch, decisions, pipeline_vars, unit_vars,
                   scoring_vars, ledger_vars, data_cache_vars>>

---------------------------------------------------------------------------
(* Indicator series: scripts/indicators.py and scripts/kdj_indicator.py.   *)
(* A series is a list whose elements are None or Some(value); index i of    *)
(* the source is index i + 1 here.                                          *)

\* longest price list given to an indicator
MaxPrices == 5

\* longest period given to an indicator
MaxPeriod == 4

\* body(value), the value computed once
Let(value, body(_)) == CHOOSE r \in {body(v) : v \in {value}} : TRUE

\* sum() of a list of floats
RECURSIVE RSum(_)
RSum(s) ==
    IF s = <<>> THEN RInt(0)
    ELSE Let(RSum(Tail(s)), LAMBDA rest : RAdd(Head(s), rest))

\* [None] * n
Undefined(n) == [i \in 1..n |-> None]

\* the prices as floats
Floats(prices) == [i \in 1..Len(prices) |-> RInt(prices[i])]

\* calculate_sma
CalculateSMA(prices, period) ==
    IF Len(prices) < period THEN Undefined(Len(prices))
    ELSE [i \in 1..Len(prices) |->
            IF i - 1 < period - 1 THEN None
            ELSE Some(RDiv(RSum(SubSeq(prices, i - period + 1, i)), RInt(period)))]

\* calculate_ema: the value appended at index i - 1 >= period - 1
RECURSIVE EmaAt(_, _, _)
EmaAt(prices, period, i) ==
    IF i = period
    THEN RDiv(RSum(SubSeq(prices, 1, period)), RInt(period))
    ELSE Let(EmaAt(prices, period, i - 1),
             LAMBDA last :
                RAdd(RMul(prices[i], Rat(2, period + 1)),
                     RMul(last, RSub(RInt(1), Rat(2, period + 1)))))

\* calculate_ema answering 0 where the history is too short
CalculateEMA_ZeroWhenShort(prices, period) ==
    IF Len(prices) < period THEN [i \in 1..Len(prices) |-> Some(RInt(0))]
    ELSE [i \in 1..Len(prices) |->
            IF i - 1 < period - 1 THEN None ELSE Some(EmaAt(prices, period, i))]

\* calculate_ema
CalculateEMA(prices, period) ==
    IF Len(prices) < period THEN Undefined(Len(prices))
    ELSE [i \in 1..Len(prices) |->
            IF i - 1 < period - 1 THEN None ELSE Some(EmaAt(prices, period, i))]

\* calculate_rsi: changes[j - 1] = prices[j] - prices[j - 1]
Changes(prices) == [j \in 1..(Len(prices) - 1) |-> RSub(prices[j + 1], prices[j])]

Gain(c) == IF RGt(c, RInt(0)) THEN c ELSE RInt(0)
Loss(c) == IF RLt(c, RInt(0)) THEN RSub(RInt(0), c) ELSE RInt(0)

\* calculate_rsi: <<avg_gain, avg_loss>> after k smoothing steps
RECURSIVE Averages(_, _, _)
Averages(changes, period, k) ==
    IF k = 0
    THEN <<RDiv(RSum([j \in 1..period |-> Gain(changes[j])]), RInt(period)),
           RDiv(RSum([j \in 1..period |-> Loss(changes[j])]), RInt(period))>>
    ELSE Let(Averages(changes, period, k - 1),
             LAMBDA avg :
                <<RDiv(RAdd(RMul(avg[1], RInt(period - 1)),
                            Gain(changes[period + k])), RInt(period)),
                  RDiv(RAdd(RMul(avg[2], RInt(period - 1)),
                            Loss(changes[period + k])), RInt(period))>>)

\* calculate_rsi: the value appended for the averages avg
RsiValue(avg) ==
    IF RIsZero(avg[2]) THEN RInt(100)
    ELSE RSub(RInt(100), RDiv(RInt(100), RAdd(RInt(1), RDiv(avg[1], avg[2]))))

\* calculate_rsi: [None], the first RSI, then one value for every further change
CalculateRSI(prices, period) ==
    IF Len(prices) < period + 1 THEN Undefined(Len(prices))
    ELSE Let(Listed(Changes(prices)),
             LAMBDA changes :
                <<None>> \o
                [k \in 1..(Len(changes) - period + 1) |->
                    Some(RsiValue(Averages(changes, period, k - 1)))])

\* the elements of a series that are not None, in order
Valid(series) ==
    LET defined == SelectSeq(series, LAMBDA x : x # None)
    IN  [i \in 1..Len(defined) |-> defined[i][1]]

\* calculate_macd: macd_line - signal_line where both are defined
Histogram(macd_line, signal_line) ==
    [i \in 1..Len(macd_line) |->
        IF macd_line[i] = None \/ signal_line[i] = None THEN None
        ELSE Some(RSub(macd_line[i][1], signal_line[i][1]))]

\* calculate_macd with the signal line padded at its end
CalculateMACD_PaddedRight(prices, fast_period, slow_period, signal_period) ==
    Let(<<Listed(CalculateEMA(prices, fast_period)),
          Listed(CalculateEMA(prices, slow_period))>>,
        LAMBDA ema :
          Let(Listed([i \in 1..Len(prices) |->
                        IF ema[1][i] = None \/ ema[2][i] = None THEN None
                        ELSE Some(RSub(ema[1][i][1], ema[2][i][1]))]),
              LAMBDA macd_line :
                Let(Listed(Valid(macd_line)),
                    LAMBDA valid_macd :
                      IF Len(valid_macd) < signal_period
                      THEN [macd |-> macd_line,
                            signal |-> Undefined(Len(macd_line)),
                            histogram |-> Undefined(Len(macd_line))]
                      ELSE Let(Listed(CalculateEMA(valid_macd, signal_period))
                                 \o Undefined(Len(prices) - Len(valid_macd)),
                               LAMBDA signal_line :
                                 [macd |-> macd_line,
                                  signal |-> signal_line,
                                  histogram |-> Histogram(macd_line, signal_line)]))))

\* calculate_macd
CalculateMACD(prices, fast_period, slow_period, signal_period) ==
    Let(<<Listed(CalculateEMA(prices, fast_period)),
          Listed(CalculateEMA(prices, slow_period))>>,
        LAMBDA ema :
          Let(Listed([i \in 1..Len(prices) |->
                        IF ema[1][i] = None \/ ema[2][i] = None THEN None
                        ELSE Some(RSub(ema[1][i][1], ema[2][i][1]))]),
              LAMBDA macd_line :
                Let(Listed(Valid(macd_line)),
                    LAMBDA valid_macd :
                      IF Len(valid_macd) < signal_period
                      THEN [macd |-> macd_line,
                            signal |-> Undefined(Len(macd_line)),
                            histogram |-> Undefined(Len(macd_line))]
                      ELSE Let(Undefined(Len(prices) - Len(valid_macd))
                                 \o Listed(CalculateEMA(valid_macd, signal_period)),
                               LAMBDA signal_line :
                                 [macd |-> macd_line,
                                  signal |-> signal_line,
                                  histogram |-> Histogram(macd_line, signal_line)]))))

\* calculate_bollinger_bands; mean + std_dev * sqrt(variance) is kept as the
\* triple of mean, variance and std_dev
CalculateBollingerBands(prices, period, std_dev) ==
    Let(Listed(CalculateSMA(prices, period)),
        LAMBDA middle :
          LET Band(i, side) ==
                IF middle[i] = None \/ i - 1 < period - 1 THEN None
                ELSE Some([mean |-> middle[i][1],
                           variance |->
                             RDiv(RSum([j \in 1..period |->
                                         RMul(RSub(prices[i - period + j], middle[i][1]),
                                              RSub(prices[i - period + j], middle[i][1]))]),
                                  RInt(period)),
                           std_devs |-> side * std_dev])
          IN  [middle |-> middle,
               upper |-> [i \in 1..Len(prices) |-> Band(i, 1)],
               lower |-> [i \in 1..Len(prices) |-> Band(i, -1)]])

\* calculate_kdj: RSV[i - period] for the window that ends at index i - 1
Rsv(prices, highs, lows, period, i) ==
    Let(<<MaxSeq(SubSeq(highs, i - period + 1, i)),
          MinSeq(SubSeq(lows, i - period + 1, i))>>,
        LAMBDA hl :
          IF hl[1] = hl[2] THEN RInt(50)
          ELSE RMul(Rat(prices[i] - hl[2], hl[1] - hl[2]), RInt(100)))

\* calculate_kdj: <<K[i - 1], D[i - 1]>> for i - 1 >= period - 1
RECURSIVE KD(_, _, _, _, _, _, _)
KD(prices, highs, lows, period, m1, m2, i) ==
    IF i = period
    THEN Let(Rsv(prices, highs, lows, period, i), LAMBDA rsv : <<rsv, rsv>>)
    ELSE Let(<<KD(prices, highs, lows, period, m1, m2, i - 1),
               Rsv(prices, highs, lows, period, i)>>,
             LAMBDA x :
               Let(RDiv(RAdd(RMul(RInt(m1 - 1), x[1][1]), x[2]), RInt(m1)),
                   LAMBDA k :
                     <<k, RDiv(RAdd(RMul(RInt(m2 - 1), x[1][2]), k), RInt(m2))>>))

\* calculate_kdj
CalculateKDJ(prices, highs, lows, period, m1, m2) ==
    IF Len(prices) < period \/ Len(highs) < period \/ Len(lows) < period
    THEN [K |-> Undefined(Len(prices)), D |-> Undefined(Len(prices)),
          J |-> Undefined(Len(prices))]
    ELSE Let(Listed([i \in 1..Len(prices) |->
                       IF i < period THEN <<>>
                       ELSE KD(prices, highs, lows, period, m1, m2, i)]),
             LAMBDA kd :
               [K |-> [i \in 1..Len(prices) |->
                         IF kd[i] = <<>> THEN None ELSE Some(kd[i][1])],
                D |-> [i \in 1..Len(prices) |->
                         IF kd[i] = <<>> THEN None ELSE Some(kd[i][2])],
                J |-> [i \in 1..Len(prices) |->
                         IF kd[i] = <<>> THEN None
                         ELSE Some(RSub(RMul(RInt(3), kd[i][1]),
                                        RMul(RInt(2), kd[i][2])))]])

\* the price lists given to the indicators: closes of 1 and 3
PriceLists == UNION {[1..n -> {1, 3}] : n \in 0..MaxPrices}

\* the arguments of an indicator call: calculate_macd takes period as its
\* fast period; the highs and lows of calculate_kdj lie spread around the
\* closes
IndicatorInputs ==
    [prices : PriceLists, period : 1..MaxPeriod, slow_period : 1..MaxPeriod,
     signal_period : 1..(MaxPeriod - 1), spread : {0, 1}]

\* a caller calls calculate_sma(prices, period)
CallSMA ==
    /\ unit_pc = "series"
    /\ unit_out' = <<Listed(CalculateSMA(Floats(unit_in.prices), unit_in.period))>>
    /\ unit_pc' = "sma"
    /\ UNCHANGED <<unit_in, pipeline_vars, scoring_vars, shared_vars, ledger_vars, data_cache_vars>>

\* a caller calls calculate_ema(prices, period)
CallEMA ==
    /\ unit_pc = "series"
    /\ unit_out' = <<Listed(CalculateEMA(Floats(unit_in.prices), unit_in.period))>>
    /\ unit_pc' = "ema"
    /\ UNCHANGED <<unit_in, pipeline_vars, scoring_vars, shared_vars, ledger_vars, data_cache_vars>>

\* a caller calls calculate_rsi(prices, period)
CallRSI ==
    /\ unit_pc = "series"
    /\ unit_out' = <<Listed(CalculateRSI(Floats(unit_in.prices), unit_in.period))>>
    /\ unit_pc' = "rsi"
    /\ UNCHANGED <<unit_in, pipeline_vars, scoring_vars, shared_vars, ledger_vars, data_cache_vars>>

\* a caller calls calculate_macd(prices, period, slow_period, signal_period)
CallMACD ==
    /\ unit_pc = "series"
    /\ \E r \in {CalculateMACD(Listed(Floats(unit_in.prices)), unit_in.period,
                               unit_in.slow_period, unit_in.signal_period)} :
         unit_out' = <<Listed(r.macd), Listed(r.signal), Listed(r.histogram)>>
    /\ unit_pc' = "macd"
    /\ UNCHANGED <<unit_in, pipeline_vars, scoring_vars, shared_vars, ledger_vars, data_cache_vars>>

\* a caller calls calculate_bollinger_bands(prices, period)
CallBollingerBands ==
    /\ unit_pc = "series"
    /\ \E r \in {CalculateBollingerBands(Listed(Floats(unit_in.prices)),
                                         unit_in.period, 2)} :
         unit_out' = <<Listed(r.middle), Listed(r.upper), Listed(r.lower)>>
    /\ unit_pc' = "bollinger"
    /\ UNCHANGED <<unit_in, pipeline_vars, scoring_vars, shared_vars, ledger_vars, data_cache_vars>>

\* a caller calls calculate_kdj(prices, highs, lows, period)
CallKDJ ==
    /\ unit_pc = "series"
    /\ \E r \in {CalculateKDJ(unit_in.prices,
                     [i \in 1..Len(unit_in.prices) |-> unit_in.prices[i] + unit_in.spread],
                     [i \in 1..Len(unit_in.prices) |-> unit_in.prices[i] - unit_in.spread],
                     unit_in.period, 3, 3)} :
         unit_out' = <<Listed(r.K), Listed(r.D), Listed(r.J)>>
    /\ unit_pc' = "kdj"
    /\ UNCHANGED <<unit_in, pipeline_vars, scoring_vars, shared_vars, ledger_vars, data_cache_vars>>

---------------------------------------------------------------------------
(* PatternRecognizer.calculate_pattern_quality beside the quality table of  *)
(* ScoringSystem._score_patterns                                            *)

\* quality_scores.get(pattern, 0.5) of calculate_pattern_quality; the candles
\* are not read
CalculatePatternQuality(pattern, candles) ==
    CASE pattern \in {"head_shoulders_top", "head_shoulders_bottom"} -> Rat(85, 100)
      [] pattern \in {"double_top", "double_bottom"} -> Rat(80, 100)
      [] pattern \in {"ascending_triangle", "descending_triangle",
                      "bull_flag", "bear_flag"} -> Rat(75, 100)
      [] pattern \in {"symmetric_triangle", "bottom_flat"} -> Rat(70, 100)
      [] pattern \in {"rising_wedge", "falling_wedge", "bull_engulf",
                      "bear_engulf"} -> Rat(65, 100)
      [] pattern \in {"ma_bull", "ma_bear"} -> Rat(60, 100)
      [] pattern \in {"ma_golden", "ma_dead"} -> Rat(55, 100)
      [] OTHER -> Rat(50, 100)

\* the labels of the two tables and one label of neither
PatternLabels ==
    {"head_shoulders_top", "head_shoulders_bottom", "double_top", "double_bottom",
     "ascending_triangle", "descending_triangle", "symmetric_triangle",
     "bull_flag", "bear_flag", "rising_wedge", "falling_wedge", "bottom_flat",
     "ma_bull", "ma_bear", "bull_engulf", "bear_engulf", "ma_golden", "ma_dead",
     "rounding_bottom"}

PatternInputs ==
    [pattern : PatternLabels,
     candles : {History(sh, n) : sh \in {"rise", "fall"}, n \in {0, 5, MaxCandles}}]

\* recognizer.calculate_pattern_quality(pattern, candles)
CallCalculatePatternQuality ==
    /\ unit_pc = "pattern"
    /\ unit_out' = <<CalculatePatternQuality(unit_in.pattern, unit_in.candles)>>
    /\ unit_pc' = "quality"
    /\ UNCHANGED <<unit_in, pipeline_vars, scoring_vars, shared_vars, ledger_vars, data_cache_vars>>

\* scorer._score_patterns([pattern]): <<score, details>>
CallScorePatterns ==
    /\ unit_pc = "pattern"
    /\ unit_out' = ScorePatterns(<<unit_in.pattern>>)
    /\ unit_pc' = "details"
    /\ UNCHANGED <<unit_in, pipeline_vars, scoring_vars, shared_vars, ledger_vars, data_cache_vars>>

---------------------------------------------------------------------------
(* DiagnosisSystem.  Labels:                                                *)
(*   trend health    健康（上升趋势） "healthy_up"                            *)
(*                   不健康（下降趋势） "unhealthy_down"                      *)
(*                   一般（横盘整理） "average_flat"   未知 "unknown"         *)
(*   position health 安全（低位） "safe_low"  一般（中位） "average_mid"      *)
(*                   风险（高位） "risk_high"  未知 "unknown"                 *)
(*   pattern health  一般（无明显形态） "average_none"                        *)
(*                   健康（看涨形态占优） "healthy_bullish"                   *)
(*                   不健康（看跌形态占优） "unhealthy_bearish"               *)
(*                   一般（形态中性） "average_neutral"                       *)
(*   overall health  非常健康 "very_healthy"  健康 "healthy"                  *)
(*                   一般 "average"  不健康 "unhealthy"                       *)
(*   risk            极低风险 "very_low" 低风险 "low" 中等风险 "medium"        *)
(*                   高风险 "high"  极高风险 "very_high"                      *)
(*   opportunity     极佳机会 "excellent"  较好机会 "good"                    *)
(*                   一般机会 "moderate"  较差机会 "poor"                     *)
(*                   极差机会 "very_poor"                                     *)
(*   recommendation  建议卖出/减仓 "sell"  建议买入 "buy"  建议观望 "hold"      *)

\* DiagnosisSystem._diagnose_trend
DiagnoseTrend(trend) ==
    IF trend = "up" THEN "healthy_up"
    ELSE IF trend = "down" THEN "unhealthy_down"
    ELSE IF trend = "flat" THEN "average_flat"
    ELSE "unknown"

\* DiagnosisSystem._diagnose_position
DiagnosePosition(position) ==
    IF position = "low" THEN "safe_low"
    ELSE IF position = "mid" THEN "average_mid"
    ELSE IF position = "high" THEN "risk_high"
    ELSE "unknown"

\* sum(1 for p in patterns if p in listed)
RECURSIVE CountIn(_, _)
CountIn(patterns, listed) ==
    IF patterns = <<>> THEN 0
    ELSE (IF Head(patterns) \in listed THEN 1 ELSE 0) + CountIn(Tail(patterns), listed)

\* DiagnosisSystem._diagnose_patterns
DiagnosePatterns(patterns) ==
    IF patterns = <<>> THEN "average_none"
    ELSE LET bullish_count ==
                 CountIn(patterns,
                         {"head_shoulders_bottom", "double_bottom", "bottom_flat",
                          "ma_bull", "bull_engulf", "ma_golden",
                          "ascending_triangle", "bull_flag"})
             bearish_count ==
                 CountIn(patterns,
                         {"head_shoulders_top", "double_top", "ma_bear",
                          "bear_engulf", "ma_dead", "descending_triangle",
                          "bear_flag"})
         IN  IF bullish_count > bearish_count THEN "healthy_bullish"
             ELSE IF bearish_count > bullish_count THEN "unhealthy_bearish"
             ELSE "average_neutral"

\* the five levels of a risk or opportunity score, lowest first
Level(score, levels) ==
    IF score >= 5 THEN levels[5]
    ELSE IF score >= 4 THEN levels[4]
    ELSE IF score >= 3 THEN levels[3]
    ELSE IF score >= 1 THEN levels[2]
    ELSE levels[1]

\* _assess_risk with a flat trend counted as a risk
AssessRisk_FlatTrendCounts(tr, fr, sr) ==
    LET risk_score ==
            (IF tr.trend \in {"down", "flat"} THEN 2 ELSE 0)
            + (IF tr.position = "high" THEN 2 ELSE 0)
            + (IF fr.valuation = "over" THEN 2 ELSE 0)
            + (IF fr.financial_health = "average" THEN 1 ELSE 0)
            + (IF sr.news_sentiment = "negative" THEN 1 ELSE 0)
        risk_factors ==
            If(tr.trend \in {"down", "flat"}, "downtrend")
            \o If(tr.position = "high", "high_position")
            \o If(fr.valuation = "over", "overvalued")
            \o If(fr.financial_health = "average", "average_finances")
            \o If(sr.news_sentiment = "negative", "negative_news")
    IN  <<Level(risk_score, <<"very_low", "low", "medium", "high", "very_high">>),
          IF risk_factors = <<>> THEN <<"no_risk_factor">> ELSE risk_factors>>

\* DiagnosisSystem._assess_risk: <<risk_level, risk_factors>>
AssessRisk(tr, fr, sr) ==
    LET risk_score ==
            (IF tr.trend = "down" THEN 2 ELSE 0)
            + (IF tr.position = "high" THEN 2 ELSE 0)
            + (IF fr.valuation = "over" THEN 2 ELSE 0)
            + (IF fr.financial_health = "average" THEN 1 ELSE 0)
            + (IF sr.news_sentiment = "negative" THEN 1 ELSE 0)
        risk_factors ==
            If(tr.trend = "down", "downtrend")
            \o If(tr.position = "high", "high_position")
            \o If(fr.valuation = "over", "overvalued")
            \o If(fr.financial_health = "average", "average_finances")
            \o If(sr.news_sentiment = "negative", "negative_news")
    IN  <<Level(risk_score, <<"very_low", "low", "medium", "high", "very_high">>),
          IF risk_factors = <<>> THEN <<"no_risk_factor">> ELSE risk_factors>>

\* DiagnosisSystem._assess_opportunity: <<opportunity_level, opportunity_factors>>
AssessOpportunity(tr, fr, sr) ==
    LET opportunity_score ==
            (IF tr.trend = "up" THEN 2 ELSE 0)
            + (IF tr.position = "low" THEN 2 ELSE 0)
            + (IF fr.valuation = "under" THEN 2 ELSE 0)
            + (IF fr.financial_health = "excellent" THEN 1 ELSE 0)
            + (IF sr.news_sentiment = "positive" THEN 1 ELSE 0)
        opportunity_factors ==
            If(tr.trend = "up", "uptrend")
            \o If(tr.position = "low", "low_position")
            \o If(fr.valuation = "under", "undervalued")
            \o If(fr.financial_health = "excellent", "excellent_finances")
            \o If(sr.news_sentiment = "positive", "positive_news")
    IN  <<Level(opportunity_score,
                <<"very_poor", "poor", "moderate", "good", "excellent">>),
          IF opportunity_factors = <<>> THEN <<"no_opportunity_factor">>
          ELSE opportunity_factors>>

\* word in label, for the words _assess_overall_health looks for: 健康
\* "healthy", 不健康 "unhealthy", 安全 "safe", 风险 "risk".  The text 不健康
\* holds the text 健康.
InLabel(word, label) ==
    CASE word = "healthy" ->
           label \in {"healthy_up", "unhealthy_down", "healthy_bullish",
                      "unhealthy_bearish"}
      [] word = "unhealthy" -> label \in {"unhealthy_down", "unhealthy_bearish"}
      [] word = "safe" -> label = "safe_low"
      [] word = "risk" -> label = "risk_high"
      [] OTHER -> FALSE

\* DiagnosisSystem._assess_overall_health
AssessOverallHealth(trend_health, position_health, pattern_health) ==
    LET health_scores ==
            <<IF InLabel("healthy", trend_health) THEN RInt(1)
              ELSE IF InLabel("unhealthy", trend_health) THEN RInt(0)
              ELSE Rat(1, 2),
              IF InLabel("safe", position_health) THEN RInt(1)
              ELSE IF InLabel("risk", position_health) THEN RInt(0)
              ELSE Rat(1, 2),
              IF InLabel("healthy", pattern_health) THEN RInt(1)
              ELSE IF InLabel("unhealthy", pattern_health) THEN RInt(0)
              ELSE Rat(1, 2)>>
        avg_health ==
            RDiv(RAdd(RAdd(health_scores[1], health_scores[2]), health_scores[3]),
                 RInt(3))
    IN  IF RGe(avg_health, Rat(75, 100)) THEN "very_healthy"
        ELSE IF RGe(avg_health, Rat(50, 100)) THEN "healthy"
        ELSE IF RGe(avg_health, Rat(25, 100)) THEN "average"
        ELSE "unhealthy"

\* DiagnosisSystem._generate_recommendation: 高 occurs in 高风险 and 极高风险,
\* 低 in 低风险 and 极低风险, 差 in 较差机会 and 极差机会, 好 in 较好机会, 佳 in
\* 极佳机会
GenerateRecommendation(risk_level, opportunity_level, overall_health) ==
    IF risk_level \in {"high", "very_high"} /\ opportunity_level \in {"poor", "very_poor"}
    THEN "sell"
    ELSE IF risk_level \in {"low", "very_low"}
            /\ opportunity_level \in {"good", "excellent"}
    THEN "buy"
    ELSE "hold"

\* DiagnosisSystem.diagnose; diagnosis_report is the text that renders the
\* other fields and is left out
Diagnose(tr, fr, sr) ==
    LET trend_health == DiagnoseTrend(tr.trend)
        position_health == DiagnosePosition(tr.position)
        pattern_health == DiagnosePatterns(tr.patterns)
        risk == AssessRisk(tr, fr, sr)
        opportunity == AssessOpportunity(tr, fr, sr)
        overall_health ==
            AssessOverallHealth(trend_health, position_health, pattern_health)
    IN  [risk_level |-> risk[1],
         opportunity_level |-> opportunity[1],
         trend_health |-> trend_health,
         position_health |-> position_health,
         pattern_health |-> pattern_health,
         overall_health |-> overall_health,
         risk_factors |-> risk[2],
         opportunity_factors |-> opportunity[2],
         recommendation |-> GenerateRecommendation(risk[1], opportunity[1],
                                                   overall_health)]

\* the three analyses a diagnosis is made of
DiagnosisInputs ==
    [trend : TrendLabels, position : PositionLabels,
     patterns : {<<>>, <<"ma_golden">>, <<"ma_dead">>, <<"rounding_bottom">>,
                 <<"bull_flag", "bear_flag">>,
                 <<"head_shoulders_top", "ma_bear", "ma_golden">>},
     valuation : {"under", "fair", "over", ""},
     financial_health : {"excellent", "good", "average", ""},
     news_sentiment : {"positive", "negative", "neutral", ""}]

\* system.diagnose(technical_result, fundamental_result, sentiment_result)
CallDiagnose ==
    /\ unit_pc = "diagnosis"
    /\ unit_out' =
         <<Diagnose([TechnicalAnalysisResult EXCEPT
                       !.trend = unit_in.trend,
                       !.position = unit_in.position,
                       !.patterns = unit_in.patterns],
                    [FundamentalAnalysisResult EXCEPT
                       !.valuation = unit_in.valuation,
                       !.financial_health = unit_in.financial_health],
                    [SentimentAnalysisResult EXCEPT
                       !.news_sentiment = unit_in.news_sentiment])>>
    /\ unit_pc' = "diagnosed"
    /\ UNCHANGED <<unit_in, pipeline_vars, scoring_vars, shared_vars, ledger_vars, data_cache_vars>>

---------------------------------------------------------------------------
(* TradingSystem (scripts/trading_system.py): buy and sell on a ledger that  *)
(* starts without saved positions.  Amounts are whole yuan; the fields that  *)
(* hold clock readings (timestamp, buy_time, hold_days) and texts (reason)   *)
(* are left out.                                                             *)

\* TradingSystem.__init__ with no data files to load
TradingSystem(initial_capital) ==
    [initial_capital |-> initial_capital,
     current_capital |-> initial_capital,
     available_capital |-> initial_capital,
     positions |-> <<>>,
     trading_log |-> <<>>,
     completed_trades |-> <<>>]

\* Position.__init__
Position(symbol_, buy_price, quantity, stop_loss, take_profit) ==
    [symbol |-> symbol_, buy_price |-> buy_price, quantity |-> quantity,
     cost |-> buy_price * quantity,
     stop_loss |-> stop_loss, take_profit |-> take_profit,
     current_price |-> buy_price, current_value |-> buy_price * quantity]

\* TradingRecord.__init__
TradingRecord(symbol_, action, price, quantity, stop_loss, take_profit) ==
    [symbol |-> symbol_, action |-> action, price |-> price, quantity |-> quantity,
     amount |-> price * quantity, stop_loss |-> stop_loss,
     take_profit |-> take_profit]

\* sum(p.current_value for p in positions.values() if p.symbol != symbol)
RECURSIVE OtherValue(_, _, _)
OtherValue(positions, held, symbol_) ==
    IF held = {} THEN 0
    ELSE LET s == CHOOSE x \in held : TRUE
         IN  (IF positions[s].symbol # symbol_ THEN positions[s].current_value ELSE 0)
             + OtherValue(positions, held \ {s}, symbol_)

\* buy that records the trade before it checks the funds
Buy_RecordsBeforeCheck(l, symbol_, price, quantity) ==
    LET amount == price * quantity
        stop_loss == RMul(RInt(price), RSub(RInt(1), Rat(5, 100)))
        take_profit == RMul(RInt(price), RAdd(RInt(1), Rat(10, 100)))
        logged == [l EXCEPT !.trading_log =
                     Append(@, TradingRecord(symbol_, "buy", price, quantity,
                                             Some(stop_loss), Some(take_profit)))]
    IN  IF amount > l.available_capital
        THEN [returned |-> FALSE, ledger |-> logged]
        ELSE [returned |-> TRUE,
              ledger |->
                [logged EXCEPT
                   !.positions =
                     [s \in DOMAIN @ \cup {symbol_} |->
                        IF s = symbol_
                        THEN Position(symbol_, price, quantity, stop_loss, take_profit)
                        ELSE @[s]],
                   !.available_capital = @ - amount]]

\* TradingSystem.buy with the default stop_loss_pct 0.05 and take_profit_pct
\* 0.10: the value returned and the ledger after the call
Buy(l, symbol_, price, quantity) ==
    LET amount == price * quantity
        stop_loss == RMul(RInt(price), RSub(RInt(1), Rat(5, 100)))
        take_profit == RMul(RInt(price), RAdd(RInt(1), Rat(10, 100)))
    IN  IF amount > l.available_capital
        THEN [returned |-> FALSE, ledger |-> l]
        ELSE [returned |-> TRUE,
              ledger |->
                [l EXCEPT
                   !.positions =
                     [s \in DOMAIN @ \cup {symbol_} |->
                        IF s = symbol_
                        THEN Position(symbol_, price, quantity, stop_loss, take_profit)
                        ELSE @[s]],
                   !.trading_log =
                     Append(@, TradingRecord(symbol_, "buy", price, quantity,
                                             Some(stop_loss), Some(take_profit))),
                   !.available_capital = @ - amount]]

\* TradingSystem.sell: the value returned and the ledger after the call
Sell(l, symbol_, price) ==
    IF symbol_ \notin DOMAIN l.positions
    THEN [returned |-> FALSE, ledger |-> l]
    ELSE LET position == l.positions[symbol_]
             amount == price * position.quantity
             pnl == amount - position.cost
             pnl_pct == RMul(Rat(pnl, position.cost), RInt(100))
             available == l.available_capital + amount
         IN  [returned |-> TRUE,
              ledger |->
                [l EXCEPT
                   !.trading_log =
                     Append(@, TradingRecord(symbol_, "sell", price,
                                             position.quantity, None, None)),
                   !.completed_trades =
                     Append(@, [symbol |-> symbol_,
                                buy_price |-> position.buy_price,
                                sell_price |-> price,
                                quantity |-> position.quantity,
                                cost |-> position.cost,
                                revenue |-> amount,
                                pnl |-> pnl,
                                pnl_pct |-> pnl_pct]),
                   !.available_capital = available,
                   !.current_capital =
                     available + OtherValue(l.positions, DOMAIN l.positions, symbol_),
                   !.positions =
                     [s \in DOMAIN l.positions \ {symbol_} |-> l.positions[s]]]]

\* the arguments of the calls
TradeSymbols == {"sh600001", "sz000001"}
TradePrices == {10, 12}
TradeQuantities == {3, 5}
Capitals == {60, 100}

\* system.buy(symbol, price, quantity)
BuyCall ==
    /\ ledger # <<>>
    /\ Len(ledger[1].trading_log) < MaxTrades
    /\ \E symbol_ \in TradeSymbols, price \in TradePrices, quantity \in TradeQuantities :
         \E r \in {Buy(ledger[1], symbol_, price, quantity)} :
           /\ ledger' = Some(r.ledger)
           /\ last_trade' = Some([op |-> "buy", symbol |-> symbol_, price |-> price,
                                  quantity |-> quantity, returned |-> r.returned])
    /\ UNCHANGED <<pipeline_vars, unit_vars, scoring_vars, shared_vars,
                   data_cache_vars>>

\* system.sell(symbol, price)
SellCall ==
    /\ ledger # <<>>
    /\ Len(ledger[1].trading_log) < MaxTrades
    /\ \E symbol_ \in TradeSymbols, price \in TradePrices :
         \E r \in {Sell(ledger[1], symbol_, price)} :
           /\ ledger' = Some(r.ledger)
           /\ last_trade' = Some([op |-> "sell", symbol |-> symbol_, price |-> price,
                                  quantity |-> 0, returned |-> r.returned])
    /\ UNCHANGED <<pipeline_vars, unit_vars, scoring_vars, shared_vars,
                   data_cache_vars>>

---------------------------------------------------------------------------
(* Direct calls of stock_api.fetch_stock_data, with and without the cache   *)

\* number of pauses between the calls
MaxPauses == 3

\* a pause a little longer than half the limiter window, so that two pauses
\* outlast both the window and the lifetime of a cache entry
Pause == time_window \div 2 + 1

\* fetch_stock_data reaches the branch "not rate_limiter.can_request()"
Refused(reqs, cch, t, key, use_cache) ==
    LET hit == CacheGet(cch, key, t)
    IN  /\ ~(use_cache /\ hit.data # None /\ hit.data[1] # <<>>)
        /\ ~CanRequest(reqs, t).granted

\* fetch_stock_data([key], use_cache)
FetchCall ==
    /\ unit_pc = "quotes"
    /\ \E key \in BatchSymbols, use_cache \in BOOLEAN :
         \E r \in {FetchStockData(requests, cache, now, key, use_cache,
                                  Market(key).stocks)} :
           /\ requests' = r.requests
           /\ cache' = r.cache
           /\ unit_in' = [key |-> key, use_cache |-> use_cache,
                          refused |-> Refused(requests, cache, now, key, use_cache)]
           /\ unit_out' = r.stocks
    /\ UNCHANGED <<now, unit_pc, batch_pc, batch, decisions, last_calls,
                   pipeline_vars, scoring_vars, ledger_vars, data_cache_vars>>

\* time passes between two calls
Elapse ==
    /\ unit_pc = "quotes"
    /\ now + Pause <= MaxPauses * Pause
    /\ now' = now + Pause
    /\ UNCHANGED <<requests, cache, batch_pc, batch, decisions, last_calls,
                   pipeline_vars, unit_vars, scoring_vars, ledger_vars,
                   data_cache_vars>>

---------------------------------------------------------------------------
(* dataflows: the DataCacheManager singleton of data_cache.get_cache and    *)
(* the two providers that keep their data in it                             *)

\* the clock of the data cache stops after MaxHours hours
MaxHours == 3

\* the cache files of one symbol: news_symbol=..._count=10.json and
\* financial_data_symbol=....json
CacheKeys == {"news", "financial_data"}

\* get_cache(cache_hours=h): the instance afterwards; an instance that exists
\* keeps its own cache_hours
GetCache(instance, cache_hours) ==
    IF instance = None THEN Some([cache_hours |-> cache_hours]) ELSE instance

\* DataCacheManager._is_cache_valid at hour t
IsCacheValid(instance, files, key, t) ==
    /\ files[key] # None
    /\ files[key][1] > t - instance[1].cache_hours

\* DataCacheManager.set at hour t: the file is written again
DataCacheSet(files, key, t) == [files EXCEPT ![key] = Some(t)]

\* what a provider call saw: the age of the file of its key (None when there
\* is no file) and whether the cache answered
Fetched(provider_, use_cache, files, key, t, hit) ==
    Some([provider |-> provider_, use_cache |-> use_cache,
          age |-> IF files[key] = None THEN None ELSE Some(t - files[key][1]),
          hit |-> hit])

\* a caller of get_cache is constructed: DataSourceManager and the default
\* ask for 1 hour, NewsDataProvider for 2, FundamentalDataProvider for 24
GetCacheCall ==
    /\ cache_files # <<>>
    /\ \E cache_hours \in {1, 2, 24} :
         cache_instance' = GetCache(cache_instance, cache_hours)
    /\ UNCHANGED <<cache_files, hours, last_fetch, pipeline_vars, unit_vars,
                   scoring_vars, shared_vars, ledger_vars>>

\* fetch_news(symbol, use_cache=...) of a NewsDataProvider, constructed at the
\* latest now; the sources or the mock news always give a non-empty list
FetchNews ==
    /\ cache_files # <<>>
    /\ \E use_cache \in BOOLEAN :
         \E instance \in {GetCache(cache_instance, 2)} :
           \E hit \in {use_cache /\ IsCacheValid(instance, cache_files, "news", hours)} :
             /\ cache_instance' = instance
             /\ cache_files' = IF ~hit /\ use_cache
                               THEN DataCacheSet(cache_files, "news", hours)
                               ELSE cache_files
             /\ last_fetch' = Fetched("news", use_cache, cache_files, "news",
                                      hours, hit)
    /\ UNCHANGED <<hours, pipeline_vars, unit_vars, scoring_vars, shared_vars,
                   ledger_vars>>

\* fetch_financial_data(symbol, use_cache=...) of a FundamentalDataProvider,
\* constructed at the latest now; answered tells whether a source returned
\* data (the mock data of the last line is never saved)
FetchFinancialData ==
    /\ cache_files # <<>>
    /\ \E use_cache \in BOOLEAN, answered \in BOOLEAN :
         \E instance \in {GetCache(cache_instance, 24)} :
           \E hit \in {use_cache /\ IsCacheValid(instance, cache_files,
                                                 "financial_data", hours)} :
             /\ cache_instance' = instance
             /\ cache_files' = IF ~hit /\ answered /\ use_cache
                               THEN DataCacheSet(cache_files, "financial_data", hours)
                               ELSE cache_files
             /\ last_fetch' = Fetched("fundamental", use_cache, cache_files,
                                      "financial_data", hours, hit)
    /\ UNCHANGED <<hours, pipeline_vars, unit_vars, scoring_vars, shared_vars,
                   ledger_vars>>

\* an hour passes
HourPasses ==
    /\ cache_files # <<>>
    /\ hours < MaxHours
    /\ hours' = hours + 1
    /\ UNCHANGED <<cache_instance, cache_files, last_fetch, pipeline_vars,
                   unit_vars, scoring_vars, shared_vars, ledger_vars>>

---------------------------------------------------------------------------
(* main.py: the decision of one propagate call is saved as JSON              *)

\* TradingDecision.to_dict, without the timestamp it adds from the clock
ToDict(d) ==
    [symbol |-> d.symbol,
     action |-> d.symbol,
     confidence |-> d.confidence,
     buy_price |-> d.buy_price,
     sell_price |-> d.sell_price,
     stop_loss |-> d.stop_loss,
     target_price |-> d.target_price,
     reasons |-> d.reasons,
     technical_score |-> d.technical_score,
     fundamental_score |-> d.fundamental_score,
     sentiment_score |-> d.sentiment_score,
     overall_score |-> d.overall_score]

\* save_decision(decision) after propagate has returned the decision: the
\* dictionary written to the file; main returns
SaveDecision ==
    /\ unit_pc = "main"
    /\ pc = "done"
    /\ decision # NoDecision
    /\ unit_out' = Some(ToDict(decision[1]))
    /\ unit_pc' = "saved"
    /\ pc' = "off"
    /\ UNCHANGED <<unit_in, symbol, provider, technical_result, fundamental_result,
                   sentiment_result, debate_result, decision, exc, scoring_vars,
                   shared_vars, ledger_vars, data_cache_vars>>

---------------------------------------------------------------------------
(* Direct calls of TechnicalAnalysisAgent._generate_signals                  *)

\* the results and prices the method is called with
SignalInputs == [score : Grid, current_price : {10, 12}]

\* agent._generate_signals(result, current_price)
CallGenerateSignals ==
    /\ unit_pc = "result"
    /\ unit_out' = GenerateSignals([TechnicalAnalysisResult EXCEPT
                                      !.score = unit_in.score])
    /\ unit_pc' = "signals"
    /\ UNCHANGED <<unit_in, pipeline_vars, scoring_vars, shared_vars, ledger_vars,
                   data_cache_vars>>

---------------------------------------------------------------------------
(* Specifications *)

NoGraph == pc = "off" /\ symbol = "other" /\ NoResults
NoUnit == unit_pc = "off" /\ unit_in = <<>> /\ unit_out = <<>>
NoScoring == weights = <<>> /\ score_result = <<>>
NoQuoteLayer == now = 0 /\ requests = <<>> /\ cache = NoCache
NoBatch == batch_pc = "off" /\ batch = <<>> /\ decisions = <<>> /\ last_calls = <<>>
NoLedger == ledger = <<>> /\ last_trade = <<>>
NoDataCache ==
    cache_instance = <<>> /\ cache_files = <<>> /\ hours = 0 /\ last_fetch = <<>>

\* a TradingAgentsGraph is constructed
Init ==
    /\ pc = "idle" /\ symbol = "other" /\ NoResults
    /\ NoUnit /\ NoScoring /\ NoQuoteLayer /\ NoLedger /\ NoDataCache /\ NoBatch

Next ==
    \/ Propagate
    \/ TechnicalStep
    \/ FundamentalStep
    \/ SentimentStep
    \/ DebateStep
    \/ DecisionStep
    \/ Return

Spec == Init /\ [][Next]_vars

\* a DecisionAgent and a DebateAgent are called directly
InitUnit ==
    /\ NoGraph /\ NoScoring /\ NoQuoteLayer /\ NoLedger /\ NoDataCache /\ NoBatch
    /\ unit_pc = "ready"
    /\ unit_in \in [s1 : Grid, s2 : Grid, consensus : ConsensusLabels]
    /\ unit_out = <<>>

NextUnit == CallDetermineAction \/ CallReachConsensus

SpecUnit == InitUnit /\ [][NextUnit]_vars

\* a ScoringSystem is constructed with the default weights
InitScoring ==
    /\ NoGraph /\ NoUnit /\ NoQuoteLayer /\ NoLedger /\ NoDataCache /\ NoBatch
    /\ weights = Some(ScoreWeights)
    /\ score_result = <<>>

NextScoring == CalculateTechnicalScoreCall \/ AdjustWeights \/ DropScoreResult

SpecScoring == InitScoring /\ [][NextScoring]_vars

\* ScoringSystem(weights=ScoreWeights(trend, position, pattern, volume_price,
\* indicator)) with positive weights
InitWeights ==
    /\ NoGraph /\ NoUnit /\ NoQuoteLayer /\ NoLedger /\ NoDataCache /\ NoBatch
    /\ \E w \in WeightInputs : weights = Some(PostInit(w))
    /\ score_result = <<>>

SpecWeights == InitWeights /\ [][AdjustWeights]_vars

\* a ScoringSystem with the default weights and a TechnicalAnalysisAgent, one
\* analysis to score
InitScorer ==
    /\ NoGraph /\ NoQuoteLayer /\ NoLedger /\ NoDataCache /\ NoBatch
    /\ weights = Some(ScoreWeights)
    /\ score_result = <<>>
    /\ unit_pc = "scorer"
    /\ unit_in \in ScorerInputs
    /\ unit_out = <<>>

NextScorer == CallCalculateTechnicalScore \/ CallCalculateScore

SpecScorer == InitScorer /\ [][NextScorer]_vars

\* a PatternRecognizer and a ScoringSystem, one pattern label to rate
InitPatterns ==
    /\ NoGraph /\ NoQuoteLayer /\ NoLedger /\ NoDataCache /\ NoBatch
    /\ weights = Some(ScoreWeights)
    /\ score_result = <<>>
    /\ unit_pc = "pattern"
    /\ unit_in \in PatternInputs
    /\ unit_out = <<>>

NextPatterns == CallCalculatePatternQuality \/ CallScorePatterns

SpecPatterns == InitPatterns /\ [][NextPatterns]_vars

\* a DiagnosisSystem and the three analyses of one stock
InitDiagnosis ==
    /\ NoGraph /\ NoScoring /\ NoQuoteLayer /\ NoLedger /\ NoDataCache /\ NoBatch
    /\ unit_pc = "diagnosis"
    /\ unit_in \in DiagnosisInputs
    /\ unit_out = <<>>

NextDiagnosis == CallDiagnose

SpecDiagnosis == InitDiagnosis /\ [][NextDiagnosis]_vars

\* a TradingSystem is constructed in an empty data directory
InitLedger ==
    /\ NoGraph /\ NoUnit /\ NoScoring /\ NoQuoteLayer /\ NoBatch /\ NoDataCache
    /\ \E initial_capital \in Capitals : ledger = Some(TradingSystem(initial_capital))
    /\ last_trade = <<>>

NextLedger == BuyCall \/ SellCall

SpecLedger == InitLedger /\ [][NextLedger]_vars

\* a process that has imported stock_api and calls fetch_stock_data
InitQuotes ==
    /\ NoGraph /\ NoScoring /\ NoQuoteLayer /\ NoLedger /\ NoDataCache /\ NoBatch
    /\ unit_pc = "quotes" /\ unit_in = <<>> /\ unit_out = <<>>

NextQuotes == FetchCall \/ Elapse

SpecQuotes == InitQuotes /\ [][NextQuotes]_vars

\* a process that has imported dataflows, with an empty cache directory
InitDataCache ==
    /\ NoGraph /\ NoUnit /\ NoScoring /\ NoQuoteLayer /\ NoBatch /\ NoLedger
    /\ cache_instance = None
    /\ cache_files = [key \in CacheKeys |-> None]
    /\ hours = 0
    /\ last_fetch = None

NextDataCache == GetCacheCall \/ FetchNews \/ FetchFinancialData \/ HourPasses

SpecDataCache == InitDataCache /\ [][NextDataCache]_vars

\* main() has constructed its TradingAgentsGraph
InitMain ==
    /\ pc = "idle" /\ symbol = "other" /\ NoResults
    /\ NoScoring /\ NoQuoteLayer /\ NoLedger /\ NoDataCache /\ NoBatch
    /\ unit_pc = "main" /\ unit_in = <<>> /\ unit_out = <<>>

NextMain == Next \/ SaveDecision

SpecMain == InitMain /\ [][NextMain]_vars

\* a TechnicalAnalysisAgent and one scored result
InitSignals ==
    /\ NoGraph /\ NoScoring /\ NoQuoteLayer /\ NoLedger /\ NoDataCache /\ NoBatch
    /\ unit_pc = "result"
    /\ unit_in \in SignalInputs
    /\ unit_out = <<>>

SpecSignals == InitSignals /\ [][CallGenerateSignals]_vars

\* either a TradingAgentsGraph or a ScoringSystem
SpecScores == (Init \/ InitScoring) /\ [][Next \/ NextScoring]_vars

\* a TradingAgentsGraph is constructed in a fresh process for batch_analyze
InitBatch ==
    /\ NoGraph /\ NoUnit /\ NoScoring /\ NoQuoteLayer /\ NoLedger /\ NoDataCache
    /\ batch_pc = "idle" /\ batch = <<>> /\ decisions = <<>> /\ last_calls = <<>>

NextBatch == BatchAnalyze \/ BatchStep \/ BatchReturn \/ Tick

SpecBatch == InitBatch /\ [][NextBatch]_vars

\* the agents are constructed in a fresh process and called directly
InitAgents ==
    /\ NoGraph /\ NoUnit /\ NoScoring /\ NoQuoteLayer /\ NoLedger /\ NoDataCache
    /\ batch_pc = "agents" /\ batch = <<>> /\ decisions = <<>> /\ last_calls = <<>>

NextAgents == AnalyzeCall \/ DebateCall \/ MakeDecisionCall \/ Tick

SpecAgents == InitAgents /\ [][NextAgents]_vars

\* the indicator functions are called directly
InitIndicators ==
    /\ NoGraph /\ NoScoring /\ NoQuoteLayer /\ NoLedger /\ NoDataCache /\ NoBatch
    /\ unit_pc = "series"
    /\ unit_in \in IndicatorInputs
    /\ unit_out = <<>>

NextIndicators ==
    CallSMA \/ CallEMA \/ CallRSI \/ CallMACD \/ CallBollingerBands \/ CallKDJ

SpecIndicators == InitIndicators /\ [][NextIndicators]_vars

---------------------------------------------------------------------------
(* Claims *)

\* C1: _determine_action implements the decision table for every overall
\* score and every consensus: score >= 0.7 and bullish -> buy with confidence
\* min(0.9, score + 0.1); else score >= 0.5 and bullish -> buy with confidence
\* score; else score <= 0.3 and bearish -> sell with confidence
\* min(0.9, (1 - score) + 0.1); else score <= 0.4 and bearish -> sell with
\* confidence 1 - score; every other combination -> hold with confidence 0.5.
C1_DecisionTable ==
    unit_pc = "determined" =>
      LET s == unit_in.s1
          c == unit_in.consensus
          action == unit_out[1][1]
          confidence == unit_out[1][2]
          bull == c = "bullish"
          bear == c = "bearish"
          minus == RSub(RInt(1), s)
      IN  /\ (bull /\ RGe(s, Rat(7, 10))) =>
                /\ action = "buy"
                /\ confidence = (IF RLt(RAdd(s, Rat(1, 10)), Rat(9, 10))
                                 THEN RAdd(s, Rat(1, 10)) ELSE Rat(9, 10))
          /\ (bull /\ RGe(s, Rat(5, 10)) /\ RLt(s, Rat(7, 10))) =>
                action = "buy" /\ confidence = s
          /\ (bear /\ RLe(s, Rat(3, 10))) =>
                /\ action = "sell"
                /\ confidence = (IF RLt(RAdd(minus, Rat(1, 10)), Rat(9, 10))
                                 THEN RAdd(minus, Rat(1, 10)) ELSE Rat(9, 10))
          /\ (bear /\ RGt(s, Rat(3, 10)) /\ RLe(s, Rat(4, 10))) =>
                action = "sell" /\ confidence = minus
          /\ (\/ c = "neutral"
              \/ bull /\ RLt(s, Rat(5, 10))
              \/ bear /\ RGt(s, Rat(4, 10))) =>
                action = "hold" /\ confidence = Rat(5, 10)

\* C1 witness: a strong buy whose confidence is capped at 0.9
C1_Witness ==
    /\ unit_pc = "determined"
    /\ unit_in.consensus = "bullish"
    /\ RGt(unit_in.s1, Rat(8, 10))
    /\ unit_out[1] = <<"buy", Rat(9, 10)>>

\* C2: whenever the technical result is the degraded default (trend unknown,
\* position unknown, score 0.0), the decision of debate followed by
\* make_decision is hold.
C2_DegradedTechnicalHolds ==
    (pc = "done" /\ technical_result = TechnicalAnalysisResult) =>
      decision[1].action = "hold"

\* C3: TechnicalAnalysisAgent.analyze never raises: whatever number of
\* candles the history provider returns, it returns a result whose trend is
\* up, down, flat or unknown and whose score is in [0, 1].
C3_AnalyzeNeverRaises ==
    /\ ~(pc = "raised" /\ exc = "IndexError")
    /\ technical_result.trend \in {"up", "down", "flat", "unknown"}
    /\ Unit01(technical_result.score)

\* C4 as claimed: for each fixed consensus and scores s1 <= s2 the confidence
\* for s2 is not lower than the confidence for s1.
C4_ConfidenceMonotone ==
    (unit_pc = "determined" /\ RLe(unit_in.s1, unit_in.s2)) =>
      RLe(unit_out[1][2], unit_out[2][2])

\* C4 amended: for consensus bullish or neutral and scores s1 <= s2 the
\* confidence for s2 is not lower than the confidence for s1; for consensus
\* bearish it is not higher.
C4_ConfidenceMonotoneByConsensus ==
    (unit_pc = "determined" /\ RLe(unit_in.s1, unit_in.s2)) =>
      /\ unit_in.consensus \in {"bullish", "neutral"} =>
            RLe(unit_out[1][2], unit_out[2][2])
      /\ unit_in.consensus = "bearish" =>
            RGe(unit_out[1][2], unit_out[2][2])

\* C4 witness: a bullish pair across the 0.7 threshold with a strictly higher
\* confidence for the higher score
C4_Witness ==
    /\ unit_pc = "determined"
    /\ unit_in.consensus = "bullish"
    /\ RLt(unit_in.s1, Rat(7, 10)) /\ RGe(unit_in.s1, Rat(5, 10))
    /\ RGe(unit_in.s2, Rat(7, 10))
    /\ RLt(unit_out[1][2], unit_out[2][2])

\* C5: the consensus is neutral exactly when |bull - bear| < 0.1; otherwise
\* it is the side with the larger score; a difference of exactly 0.1 is not
\* neutral.
C5_ConsensusRule ==
    unit_pc = "consensus" =>
      LET bull == unit_in.s1
          bear == unit_in.s2
          gap == IF RLt(bull, bear) THEN RSub(bear, bull) ELSE RSub(bull, bear)
      IN  /\ (unit_out[1] = "neutral") <=> RLt(gap, Rat(1, 10))
          /\ (RGe(gap, Rat(1, 10)) /\ RGt(bull, bear)) => unit_out[1] = "bullish"
          /\ (RGe(gap, Rat(1, 10)) /\ RLt(bull, bear)) => unit_out[1] = "bearish"

\* C5 witness: a difference of exactly 0.1 resolved to the larger side
C5_Witness ==
    /\ unit_pc = "consensus"
    /\ RSub(unit_in.s1, unit_in.s2) = Rat(1, 10)
    /\ unit_out[1] = "bullish"

\* C6: in every DebateResult, bull_score = 0.4 technical + 0.3 fundamental
\* + 0.3 sentiment, bear_score = 1 - bull_score, the two sum to 1, and
\* score = bull_score / (bull_score + bear_score) is defined and equals
\* bull_score.
C6_DebateScores ==
    /\ exc # "ZeroDivisionError"
    /\ pc \in {"decision", "done"} =>
         LET blend == Rat(4 * technical_result.score[1] * fundamental_result.score[2]
                            * sentiment_result.score[2]
                          + 3 * fundamental_result.score[1] * technical_result.score[2]
                            * sentiment_result.score[2]
                          + 3 * sentiment_result.score[1] * technical_result.score[2]
                            * fundamental_result.score[2],
                          10 * technical_result.score[2] * fundamental_result.score[2]
                            * sentiment_result.score[2])
         IN  /\ debate_result.bull_score = blend
             /\ debate_result.bear_score = RSub(RInt(1), blend)
             /\ RAdd(debate_result.bull_score, debate_result.bear_score) = RInt(1)
             /\ debate_result.score = debate_result.bull_score

\* C6 witness: a debate over three non-zero scores
C6_Witness ==
    /\ pc = "decision"
    /\ RGt(technical_result.score, RInt(0))
    /\ RGt(sentiment_result.score, RInt(0))
    /\ RGt(debate_result.bull_score, Rat(1, 2))
    /\ debate_result.score = debate_result.bull_score

\* C7: the technical, fundamental and sentiment scores, every ScoringSystem
\* sub-score and its overall score, the decision's overall_score and the
\* decision's confidence are all within [0, 1].
C7_ScoresBounded ==
    /\ Unit01(technical_result.score)
    /\ Unit01(fundamental_result.score)
    /\ Unit01(sentiment_result.score)
    /\ decision # <<>> =>
         Unit01(decision[1].overall_score) /\ Unit01(decision[1].confidence)
    /\ score_result # <<>> =>
         /\ Unit01(score_result[1].trend_score)
         /\ Unit01(score_result[1].position_score)
         /\ Unit01(score_result[1].pattern_score)
         /\ Unit01(score_result[1].volume_price_score)
         /\ Unit01(score_result[1].indicator_score)
         /\ Unit01(score_result[1].overall_score)

\* C7 witness: a decision over a technical score limited at 0 (a down-trend
\* at a high position) and a sentiment score limited at 1
C7_Witness ==
    /\ pc = "done"
    /\ technical_result.trend = "down" /\ technical_result.position = "high"
    /\ technical_result.score = RInt(0)
    /\ sentiment_result.market_heat = "high"
    /\ sentiment_result.score = RInt(1)

\* C8: in every TradingDecision, stop_loss and target_price are populated if
\* and only if action is buy, sell_price if and only if action is sell; for
\* hold all three are empty.
C8_PricesByAction ==
    pc = "done" =>
      LET d == decision[1]
      IN  /\ (d.stop_loss # None) <=> (d.action = "buy")
          /\ (d.target_price # None) <=> (d.action = "buy")
          /\ (d.sell_price # None) <=> (d.action = "sell")
          /\ d.action = "hold" =>
               d.stop_loss = None /\ d.target_price = None /\ d.sell_price = None

\* C8 witness: a sell decision with a sell price and neither stop nor target
C8_Witness ==
    /\ pc = "done"
    /\ decision[1].action = "sell"
    /\ decision[1].sell_price # None
    /\ decision[1].stop_loss = None /\ decision[1].target_price = None

\* C9: a buy at current price p has stop_loss = p (1 - 0.03) and
\* target_price = p (1 + 0.05), or p (1 + 0.07) when the technical position
\* is low; a sell has sell_price = p; for p > 0 a buy has
\* stop_loss < buy_price < target_price.
C9_PriceLevels ==
    pc = "done" =>
      LET d == decision[1]
          p == RInt(provider.price)
      IN  /\ d.action = "buy" =>
               /\ d.buy_price = Some(p)
               /\ d.stop_loss = Some(Rat(97 * provider.price, 100))
               /\ d.target_price =
                    Some(IF technical_result.position = "low"
                         THEN Rat(107 * provider.price, 100)
                         ELSE Rat(105 * provider.price, 100))
               /\ provider.price > 0 =>
                    /\ RLt(d.stop_loss[1], d.buy_price[1])
                    /\ RLt(d.buy_price[1], d.target_price[1])
          /\ d.action = "sell" => d.sell_price = Some(p)

\* C9 witness: a buy at a low position and a positive price, target 7% up
C9_Witness ==
    /\ pc = "done"
    /\ decision[1].action = "buy"
    /\ technical_result.position = "low"
    /\ provider.price > 0
    /\ decision[1].target_price = Some(Rat(107 * provider.price, 100))

\* C10: when the history provider returns fewer than 10 candles (or
\* nothing), or the quote provider returns nothing, analyze short-circuits
\* without raising and returns the default result: trend unknown, position
\* unknown, score 0.0, no patterns, no signals.
C10_InsufficientHistory ==
    LET short == \/ provider.quote = "none"
                 \/ provider.quote = "ok" /\ provider.history = "none"
                 \/ provider.quote = "ok" /\ provider.history = "list"
                    /\ provider.n < 10
    IN  /\ (pc = "raised" /\ exc = "IndexError") => ~short
        /\ (pc = "fundamental" /\ short) =>
             /\ technical_result.trend = "unknown"
             /\ technical_result.position = "unknown"
             /\ technical_result.score = RInt(0)
             /\ technical_result.patterns = <<>>
             /\ technical_result.signals = <<>>

\* C10 witness: analyze returned the default result for 5 candles
C10_Witness ==
    /\ pc = "fundamental"
    /\ provider.quote = "ok" /\ provider.history = "list" /\ provider.n = 5
    /\ technical_result = TechnicalAnalysisResult

\* C11: batch independence: with the providers answering the same for a
\* symbol at every request, the decision batch_analyze produces for a symbol
\* does not depend on which symbols stand before it in the batch or on how
\* many there are: two decisions of one batch for the same symbol are equal.
C11_BatchIndependence ==
    \A i, j \in 1..Len(decisions) :
        decisions[i].symbol = decisions[j].symbol => decisions[i] = decisions[j]

\* C12: idempotence: two successive calls of analyze, debate or make_decision
\* with the same arguments, the providers answering the same, return the
\* same result.
C12_Idempotent ==
    (/\ Len(last_calls) = 2
     /\ last_calls[1].method = last_calls[2].method
     /\ last_calls[1].symbol = last_calls[2].symbol)
    => last_calls[1].result = last_calls[2].result

\* C13: undefined region: for SMA, EMA, RSI, the Bollinger bands and KDJ
\* with period p over at least p prices, every returned series is undefined
\* (None) at the indices 0..p-2 and defined at index p-1.
C13_UndefinedRegion ==
    (/\ unit_pc \in {"sma", "ema", "rsi", "bollinger", "kdj"}
     /\ Len(unit_in.prices) >= unit_in.period)
    => \A s \in 1..Len(unit_out) :
          /\ Len(unit_out[s]) >= unit_in.period
          /\ \A i \in 1..(unit_in.period - 1) : unit_out[s][i] = None
          /\ unit_out[s][unit_in.period] # None

\* C14: series alignment: every series returned by calculate_sma,
\* calculate_ema, calculate_rsi, calculate_macd, calculate_bollinger_bands and
\* calculate_kdj has as many elements as the price list, for every length and
\* period.
C14_SeriesAlignment ==
    unit_pc \in {"sma", "ema", "rsi", "macd", "bollinger", "kdj"}
    => \A s \in 1..Len(unit_out) : Len(unit_out[s]) = Len(unit_in.prices)

\* C15: failure policy: an indicator whose period is longer than the price
\* list returns series of the length of the price list with every element
\* undefined (None): SMA, EMA, RSI, Bollinger bands and KDJ for their period,
\* the three MACD series for the fast or the slow period, the signal line and
\* the histogram also for the signal period.
C15_PeriodLongerThanHistory ==
    LET n == Len(unit_in.prices)
        AllUndefined(series) ==
            Len(series) = n /\ \A i \in 1..Len(series) : series[i] = None
    IN  /\ (/\ unit_pc \in {"sma", "ema", "rsi", "bollinger", "kdj"}
            /\ unit_in.period > n)
           => \A s \in 1..Len(unit_out) : AllUndefined(unit_out[s])
        /\ (unit_pc = "macd" /\ (unit_in.period > n \/ unit_in.slow_period > n))
           => \A s \in 1..3 : AllUndefined(unit_out[s])
        /\ (unit_pc = "macd" /\ unit_in.signal_period > n)
           => AllUndefined(unit_out[2]) /\ AllUndefined(unit_out[3])

\* C15 witness: MACD over three prices with a fast period of at most 3 and a
\* slow period of 4: three series of three undefined elements
C15_Witness ==
    /\ unit_pc = "macd"
    /\ Len(unit_in.prices) = 3
    /\ unit_in.period <= 3 /\ unit_in.slow_period = 4
    /\ unit_out = <<<<None, None, None>>, <<None, None, None>>,
                    <<None, None, None>>>>

\* C16: MACD alignment: with fast <= slow the macd line is defined exactly at
\* the indices >= slow - 1; the signal line is the EMA(signal) of the defined
\* macd values, padded at its start, so it is defined exactly at the indices
\* >= slow + signal - 2; the histogram is defined at an index exactly when
\* both lines are and is then their difference at that index.
C16_MacdAlignment ==
    (unit_pc = "macd" /\ unit_in.period <= unit_in.slow_period)
    => LET n == Len(unit_in.prices)
           slow == unit_in.slow_period
           signal == unit_in.signal_period
           macd_line == unit_out[1]
           signal_line == unit_out[2]
           histogram == unit_out[3]
       IN  \A i \in 1..n :
             /\ (macd_line[i] # None) <=> (i - 1 >= slow - 1)
             /\ (signal_line[i] # None) <=> (i - 1 >= slow + signal - 2)
             /\ signal_line[i] # None =>
                  signal_line[i] =
                    CalculateEMA([k \in 1..(n - slow + 1) |-> macd_line[k + slow - 1][1]],
                                 signal)[i - slow + 1]
             /\ (histogram[i] # None) <=>
                  (macd_line[i] # None /\ signal_line[i] # None)
             /\ histogram[i] # None =>
                  RAdd(histogram[i][1], signal_line[i][1]) = macd_line[i][1]

\* C16 witness: fast 1, slow 2, signal 2: the histogram starts at index 2 with
\* a value that is not zero
C16_Witness ==
    /\ unit_pc = "macd"
    /\ unit_in.period = 1 /\ unit_in.slow_period = 2 /\ unit_in.signal_period = 2
    /\ Len(unit_in.prices) = 5
    /\ unit_out[1][1] = None /\ unit_out[1][2] # None
    /\ unit_out[3][2] = None /\ unit_out[3][3] # None
    /\ ~RIsZero(unit_out[3][3][1])

\* C17: weight profile invariant: after ScoreWeights is constructed with any
\* positive weights, and after any sequence of adjust_weights calls
\* (trending, ranging, volatile or an unknown condition), the five weights
\* sum to 1.0.
C17_WeightsSumToOne ==
    weights # <<>> => WeightTotal(weights[1]) = RInt(1)

\* C18: results are value objects: a TechnicalScoreResult returned by
\* calculate_technical_score is not changed by a later operation on the
\* ScoringSystem; its weights and scores read the same as long as the caller
\* holds it.
C18_ResultIsValue ==
    [][(score_result # <<>> /\ score_result' # <<>>)
       => ReadResult(score_result'[1], weights'[1])
            = ReadResult(score_result[1], weights[1])]_vars

\* C19: neutral default for absent inputs: an unknown trend or position
\* label, an empty pattern list, and indicators without RSI and MACD each
\* contribute the neutral sub-score 0.5 to calculate_technical_score.
C19_NeutralDefault ==
    unit_pc = "system_score"
    => /\ unit_in.trend = "unknown" => unit_out[1].trend_score = Rat(1, 2)
       /\ unit_in.position = "unknown" => unit_out[1].position_score = Rat(1, 2)
       /\ unit_in.patterns = <<>> => unit_out[1].pattern_score = Rat(1, 2)
       /\ DOMAIN unit_in.indicators = {} => unit_out[1].indicator_score = Rat(1, 2)

\* C20: the technical score of TechnicalAnalysisAgent._calculate_score equals
\* the overall_score of ScoringSystem.calculate_technical_score for the same
\* trend, position, patterns, volume-price label and indicators.
C20_AgentScoreIsWeightedSum ==
    unit_pc = "agent_score"
    => unit_out[1] =
         CalculateTechnicalScore(weights[1], unit_in.trend, unit_in.position,
                                 unit_in.patterns, unit_in.volume_price,
                                 unit_in.indicators).overall_score

\* C21: each pattern label has one fixed quality score: for every label,
\* calculate_pattern_quality(label, candles) equals the quality score that
\* _score_patterns looks up for the label, whatever the candles.
C21_OneQualityTable ==
    /\ unit_pc = "quality" => unit_out[1] = QualityScore(unit_in.pattern)
    /\ unit_pc = "details" =>
         unit_out[2][unit_in.pattern]
           = CalculatePatternQuality(unit_in.pattern, unit_in.candles)

\* C22: risk and opportunity rules of the DiagnosisSystem: a down trend, a
\* high position, an over valuation, average finances and negative news add
\* (2, 2, 2, 1, 1) to the risk score only; an up trend, a low position, an
\* under valuation, excellent finances and positive news add (2, 2, 2, 1, 1)
\* to the opportunity score only; a flat trend adds to neither; each score
\* maps to one of five levels: >= 5, 4, 3, 1..2, 0.
C22_RiskOpportunityRules ==
    unit_pc = "diagnosed"
    => LET d == unit_out[1]
           Points(label, listed, points) == IF label = listed THEN points ELSE 0
           risk == Points(unit_in.trend, "down", 2)
                   + Points(unit_in.position, "high", 2)
                   + Points(unit_in.valuation, "over", 2)
                   + Points(unit_in.financial_health, "average", 1)
                   + Points(unit_in.news_sentiment, "negative", 1)
           opportunity == Points(unit_in.trend, "up", 2)
                          + Points(unit_in.position, "low", 2)
                          + Points(unit_in.valuation, "under", 2)
                          + Points(unit_in.financial_health, "excellent", 1)
                          + Points(unit_in.news_sentiment, "positive", 1)
       IN  /\ d.risk_level =
                (CASE risk >= 5 -> "very_high" [] risk = 4 -> "high"
                   [] risk = 3 -> "medium" [] risk \in {1, 2} -> "low"
                   [] risk = 0 -> "very_low")
           /\ d.opportunity_level =
                (CASE opportunity >= 5 -> "excellent" [] opportunity = 4 -> "good"
                   [] opportunity = 3 -> "moderate" [] opportunity \in {1, 2} -> "poor"
                   [] opportunity = 0 -> "very_poor")
           /\ ("downtrend" \in Range(d.risk_factors)) <=> (unit_in.trend = "down")
           /\ ("uptrend" \in Range(d.opportunity_factors)) <=> (unit_in.trend = "up")
           /\ unit_in.trend = "flat" =>
                Range(d.risk_factors) \cap {"downtrend", "uptrend"} = {}
                /\ Range(d.opportunity_factors) \cap {"downtrend", "uptrend"} = {}

\* C22 witness: a flat trend with every other label a risk: risk score 6,
\* opportunity score 0
C22_Witness ==
    /\ unit_pc = "diagnosed"
    /\ unit_in.trend = "flat" /\ unit_in.position = "high"
    /\ unit_in.valuation = "over" /\ unit_in.financial_health = "average"
    /\ unit_in.news_sentiment = "negative"
    /\ unit_out[1].risk_level = "very_high"
    /\ unit_out[1].opportunity_level = "very_poor"
    /\ unit_out[1].opportunity_factors = <<"no_opportunity_factor">>

\* C23: blend consistency: in every decision of propagate the overall score
\* equals the bull score of the debate, the consensus is decided by the
\* overall score alone (bullish from 0.55, bearish up to 0.45), and the action
\* is buy exactly when the overall score is >= 0.55, sell exactly when it is
\* <= 0.4, and hold otherwise.
C23_BlendConsistency ==
    pc = "done" =>
      LET d == decision[1]
          s == d.overall_score
      IN  /\ s = debate_result.bull_score
          /\ (debate_result.consensus = "bullish") <=> RGe(s, Rat(55, 100))
          /\ (debate_result.consensus = "bearish") <=> RLe(s, Rat(45, 100))
          /\ (d.action = "buy") <=> RGe(s, Rat(55, 100))
          /\ (d.action = "sell") <=> RLe(s, Rat(40, 100))
          /\ (d.action = "hold") <=> (RGt(s, Rat(40, 100)) /\ RLt(s, Rat(55, 100)))

\* C23 witness: a bearish debate that ends in hold, the overall score lying
\* between 0.4 and 0.45
C23_Witness ==
    /\ pc = "done"
    /\ debate_result.consensus = "bearish"
    /\ decision[1].action = "hold"
    /\ RGt(decision[1].overall_score, Rat(40, 100))
    /\ decision[1].overall_score = debate_result.bull_score

\* C24: rejections leave the ledger unchanged: a buy whose price * quantity
\* exceeds available_capital returns False, a sell of a symbol that is not
\* held returns False, and a call that returns False leaves positions,
\* trading_log, completed_trades, current_capital and available_capital as
\* they were.
C24_RejectionsChangeNothing ==
    [][(ledger # <<>> /\ last_trade' # <<>>)
       => LET call == last_trade'[1]
              l == ledger[1]
          IN  /\ (call.op = "buy" /\ call.price * call.quantity > l.available_capital)
                 => ~call.returned
              /\ (call.op = "sell" /\ call.symbol \notin DOMAIN l.positions)
                 => ~call.returned
              /\ ~call.returned => ledger' = ledger]_vars

\* C24 witness: a buy refused while a position is open and the log is not
\* empty
C24_Witness ==
    /\ ledger # <<>> /\ last_trade # <<>>
    /\ last_trade[1].op = "buy" /\ ~last_trade[1].returned
    /\ DOMAIN ledger[1].positions # {}
    /\ ledger[1].completed_trades # <<>>
    /\ last_trade[1].price * last_trade[1].quantity > ledger[1].available_capital

\* C25: money conservation: after any sequence of buy and sell calls,
\* available_capital plus the sum of buy_price * quantity over the open
\* positions equals initial_capital plus the sum of pnl over
\* completed_trades, and available_capital is never negative.
C25_MoneyConserved ==
    ledger # <<>>
    => LET l == ledger[1]
           Invested[held \in SUBSET DOMAIN l.positions] ==
               IF held = {} THEN 0
               ELSE LET s == CHOOSE x \in held : TRUE
                    IN  l.positions[s].buy_price * l.positions[s].quantity
                        + Invested[held \ {s}]
           Realised[n \in 0..Len(l.completed_trades)] ==
               IF n = 0 THEN 0 ELSE l.completed_trades[n].pnl + Realised[n - 1]
       IN  /\ l.available_capital + Invested[DOMAIN l.positions]
                = l.initial_capital + Realised[Len(l.completed_trades)]
           /\ l.available_capital >= 0

\* C26: a fetch_stock_data call that the rate limiter refuses returns the
\* entry the cache holds for the requested codes, however old that entry is
C26_StaleEntryServed ==
    [][(unit_pc = "quotes" /\ now' = now /\ unit_in'.refused
        /\ cache[unit_in'.key] # <<>>)
       => unit_out' = cache[unit_in'.key][1].data]_vars

\* C27: a provider call that consults the cache is answered by it exactly
\* when the file of its key is younger than the provider's own lifetime:
\* 2 hours for the news, 24 hours for the financial data
C27_PerProviderLifetime ==
    (last_fetch # None /\ last_fetch[1].use_cache /\ last_fetch[1].age # None)
    => (last_fetch[1].hit
        <=> last_fetch[1].age[1]
              < (IF last_fetch[1].provider = "news" THEN 2 ELSE 24))

\* C28: the overall health is the level of the average of three marks, where
\* an unhealthy trend or pattern diagnosis marks 0, a healthy one 1, a safe
\* position 1, a risky one 0 and anything else one half (the marks are
\* counted in halves here); so a down-trend at a high position with bearish
\* patterns dominant is unhealthy overall
C28_UnhealthyCountsZero ==
    unit_pc = "diagnosed"
    => LET d == unit_out[1]
           Halves(label) ==
               IF label \in {"healthy_up", "healthy_bullish", "safe_low"} THEN 2
               ELSE IF label \in {"unhealthy_down", "unhealthy_bearish", "risk_high"}
               THEN 0
               ELSE 1
           total == Halves(d.trend_health) + Halves(d.position_health)
                      + Halves(d.pattern_health)
       IN  /\ d.overall_health =
                (IF 2 * total >= 9 THEN "very_healthy"
                 ELSE IF total >= 3 THEN "healthy"
                 ELSE IF 2 * total >= 3 THEN "average"
                 ELSE "unhealthy")
           /\ (d.trend_health = "unhealthy_down" /\ d.position_health = "risk_high"
               /\ d.pattern_health = "unhealthy_bearish")
              => d.overall_health = "unhealthy"

\* C29: the dictionary save_decision writes holds the fields of the
\* decision: its action, symbol, confidence, prices, reasons and scores
C29_ToDictPreservesDecision ==
    unit_pc = "saved"
    => LET d == decision[1]
           saved == unit_out[1]
       IN  /\ saved.action = d.action
           /\ saved.symbol = d.symbol
           /\ saved.confidence = d.confidence
           /\ saved.buy_price = d.buy_price
           /\ saved.sell_price = d.sell_price
           /\ saved.stop_loss = d.stop_loss
           /\ saved.target_price = d.target_price
           /\ saved.reasons = d.reasons
           /\ saved.technical_score = d.technical_score
           /\ saved.fundamental_score = d.fundamental_score
           /\ saved.sentiment_score = d.sentiment_score
           /\ saved.overall_score = d.overall_score

\* C30: _generate_signals returns exactly one signal: strong buy from 0.7 up,
\* buy from 0.5 to below 0.7, hold between 0.3 and 0.5, sell above 0.1 up to
\* 0.3, and strong sell for every score up to 0.1
C30_SignalBuckets ==
    unit_pc = "signals"
    => LET score == unit_in.score
       IN  unit_out =
             (IF RGe(score, Rat(7, 10)) THEN <<"strong_buy">>
              ELSE IF RGe(score, Rat(5, 10)) THEN <<"buy">>
              ELSE IF RGt(score, Rat(3, 10)) THEN <<"hold">>
              ELSE IF RGt(score, Rat(1, 10)) THEN <<"sell">>
              ELSE <<"strong_sell">>)

===========================================================================
